---- MODULE Spec2Model ----
(***************************************************************************)
(* Model of the /api/search request handler of rag-medan-v2                *)
(* (routes/search_routes.search and the app.search variant), of the        *)
(* pre-filter and relevance-judge adapters of core/filtering.py and of     *)
(* the local hard filter of core/utils.py.                                 *)
(*                                                                         *)
(* Scores are integers in thousandths (0.90 is 900).  Python values that   *)
(* come out of a parsed LLM reply are strings: "True", "False", "None",    *)
(* "nonempty_str", "zero", and "absent" for a key the dict does not have.  *)
(***************************************************************************)
EXTENDS Integers, Sequences, FiniteSets, TLC

VARIABLES
    variant,              \* which handler serves /api/search: "routes" or "app"
    pc,                   \* position of the request in the handler
    user_question,        \* the request's question, a sequence of raw words
    normalized_question,  \* normalize_text(clean_location_terms(clean_question))
    qdrant_results,       \* hits of the knowledge_bank query, best dense first
    relevance_result,     \* verdict of ai_check_relevance on the top hit, or {}
    accepted_results,     \* scored candidates the tiers accepted
    rejected_results,     \* scored candidates the tiers rejected
    response_payload,     \* the JSON body and HTTP code the handler answers
    doc_response,         \* what the document service answered to the fallback
    doc_relevance_result, \* verdict of ai_check_relevance on the excerpt
    log,                  \* external calls of the request, in order
    judge_reply,          \* reply of the LLM handed to a lone judge call
    pages,                \* page map handed to _semantic_merge_pages, in dict order
    embed_failures,       \* which embed_passage calls of the merge raise
    merged,               \* what _semantic_merge_pages returned, or that it raised
    runs,                 \* locals of each process_document invocation
    document_bank,        \* the document_bank collection of the vector index
    files_on_disk,        \* files present: local sources and downloaded temp files
    knowledge_bank,       \* points of the knowledge_bank collection
    usulan_bank,          \* points of the usulan_bank collection
    last_write,           \* history: the last write a sync applied to each entry id
    pre_reply,            \* reply of the LLM handed to a lone ai_pre_filter call
    pdf,                  \* the pages of the PDF handed to _extract_pdf_pages
    extracted_pages       \* the page map _extract_pdf_pages has built so far

\* the variables of the document pipeline
\* the variables of the two sync endpoints
sync_vars == <<knowledge_bank, usulan_bank, last_write>>

\* the variables of the PDF text extraction
ocr_vars == <<pdf, extracted_pages>>

pipeline_vars == <<pages, embed_failures, merged, runs, document_bank,
                   files_on_disk, sync_vars, ocr_vars, pre_reply>>

\* no PDF is being read
OcrIdle ==
    /\ pdf = [pages |-> <<>>, page_number |-> 0]
    /\ extracted_pages = <<>>

\* no sync request has been served
SyncIdle ==
    /\ knowledge_bank = {}
    /\ usulan_bank = {}
    /\ last_write = <<>>

vars == <<variant, pc, user_question, normalized_question, qdrant_results,
          relevance_result, accepted_results, rejected_results,
          response_payload, doc_response, doc_relevance_result, log,
          judge_reply, pipeline_vars>>

\* no document is being processed
PipelineIdle ==
    /\ pages = <<>>
    /\ embed_failures = {}
    /\ merged = [called |-> FALSE, raised |-> FALSE, chunks |-> <<>>,
                 items |-> <<>>, compared |-> <<>>]
    /\ runs = <<>>
    /\ document_bank = [exists |-> FALSE, points |-> {}]
    /\ files_on_disk = {}
    /\ SyncIdle
    /\ OcrIdle

---------------------------------------------------------------------------
\* Bounds of the model.

\* longest question, in words
MaxTokens == 2
\* most hits the knowledge_bank query returns
MaxHits == 2

---------------------------------------------------------------------------
\* Python helpers.

\* bool(v)
Truthy(v) == v \in {"True", "nonempty_str"}

\* d.get(k, default) on a dict whose missing keys read "absent"
Get(d, k, default) == IF d[k] = "absent" THEN default ELSE d[k]

\* the dict {}
EmptyDict == [relevant |-> "absent", reason |-> "absent",
              reformulated_question |-> "absent"]

\* s contains sub as a run of consecutive words
Contains(s, sub) ==
    \E i \in 1..(Len(s) - Len(sub) + 1) : SubSeq(s, i, i + Len(sub) - 1) = sub

RECURSIVE Flatten(_)
Flatten(ss) == IF ss = <<>> THEN <<>> ELSE Head(ss) \o Flatten(Tail(ss))

\* sequences over S of length at most n
SeqsUpTo(S, n) == UNION {[1..k -> S] : k \in 0..n}

---------------------------------------------------------------------------
\* core/utils.py

\* str.lower() on the words of the model
Lower(w) ==
    CASE w = "Jakarta" -> "jakarta"
      [] w = "Medan"   -> "medan"
      [] OTHER         -> w

\* re.sub(r"[^\w\s]", " ", w).split(): punctuation separates words
PunctSplit(w) ==
    CASE w = "ter-baik" -> <<"ter", "baik">>
      [] OTHER          -> <<w>>

NON_MEDAN_LOCATIONS ==
    { <<"jakarta">>, <<"bandung">>, <<"surabaya">>, <<"yogyakarta">>,
      <<"semarang">>, <<"siantar">>, <<"pematangsiantar">>,
      <<"pematang", "siantar">>, <<"binjai">>, <<"tebing">>,
      <<"tebing", "tinggi">>, <<"aceh">>, <<"padang">>, <<"pekanbaru">>,
      <<"riau">>, <<"deliserdang">>, <<"deli", "serdang">>, <<"langkat">>,
      <<"tanjung", "morawa">>, <<"belawan">>, <<"labuhanbatu">> }

OPINION_WORDS ==
    { "rajin", "malas", "ganteng", "cantik", "baik", "buruk", "terkenal",
      "paling", "ter", "terbaik", "terburuk", "terjelek", "terbodoh",
      "terrajin" }

\* the lower-cased question with punctuation turned into word breaks
question_normalized(question) ==
    Flatten([i \in 1..Len(question) |-> PunctSplit(Lower(question[i]))])

hard_filter_local(question) ==
    LET qn == question_normalized(question) IN
    IF \E loc \in NON_MEDAN_LOCATIONS : Contains(qn, loc)
    THEN [valid |-> "False", reason |-> "location",
          clean_question |-> [kind |-> "str", text |-> question]]
    ELSE IF \E i \in 1..Len(qn) : qn[i] \in OPINION_WORDS
    THEN [valid |-> "False", reason |-> "opinion",
          clean_question |-> [kind |-> "str", text |-> question]]
    ELSE IF Len(qn) <= 1
    THEN [valid |-> "False", reason |-> "too_short",
          clean_question |-> [kind |-> "str", text |-> question]]
    ELSE [valid |-> "True", reason |-> "Lolos hard filter",
          clean_question |-> [kind |-> "str", text |-> question]]

\* removes every run "di kota medan" and "di medan", case-insensitively
RECURSIVE clean_location_terms(_)
clean_location_terms(text) ==
    LET low == [i \in 1..Len(text) |-> Lower(text[i])] IN
    IF text = <<>> THEN <<>>
    ELSE IF Len(text) >= 3 /\ SubSeq(low, 1, 3) = <<"di", "kota", "medan">>
    THEN clean_location_terms(SubSeq(text, 4, Len(text)))
    ELSE IF Len(text) >= 2 /\ SubSeq(low, 1, 2) = <<"di", "medan">>
    THEN clean_location_terms(SubSeq(text, 3, Len(text)))
    ELSE <<Head(text)>> \o clean_location_terms(Tail(text))

\* punctuation to blanks, blanks collapsed; the case of the words is kept
normalize_text(text) ==
    Flatten([i \in 1..Len(text) |-> PunctSplit(text[i])])

\* words of the model's vocabulary that CATEGORY_KEYWORDS lists
CategoryKeywords == {"ktp"}

\* detect_category(question): the first category with a keyword in the
\* lower-cased question, or None
detect_category(question) ==
    IF \E i \in 1..Len(question) : Lower(question[i]) \in CategoryKeywords
    THEN "0196f6a8-9cb8-7385-8383-9d4f8fdcd396"
    ELSE "None"

---------------------------------------------------------------------------
\* core/filtering.py: the LLM and what it may answer.

\* ways the HTTP call of _call_gemini_llm ends without a text
FailedTransports ==
    {"http_error", "timeout", "conn_error", "bad_body", "no_candidates",
     "no_parts"}

\* replies without a JSON object: blank text, prose, braces json.loads rejects
NonObjectShapes == {"empty", "no_json", "bad_json"}

RelevantVals == {"True", "False", "None", "absent", "nonempty_str", "zero"}

ReformVals == {"absent", "short", "long", "nonstring"}

JudgeObjects ==
    [relevant : RelevantVals, reason : {"absent", "str"},
     reformulated_question : ReformVals]

JudgeReplies ==
         {[transport |-> t, shape |-> "-", obj |-> EmptyDict] :
             t \in FailedTransports}
    \cup {[transport |-> "ok", shape |-> s, obj |-> EmptyDict] :
             s \in NonObjectShapes}
    \cup {[transport |-> "ok", shape |-> "object", obj |-> o] :
             o \in JudgeObjects}

\* the judge replies a search request is run against
SearchJudgeReplies ==
    {r \in JudgeReplies :
        \/ r.transport = "timeout"
        \/ /\ r.shape = "object"
           /\ r.obj.reason = "str"
           /\ r.obj.reformulated_question = "short"
           /\ r.obj.relevant \in {"True", "False", "absent"}}

NoReply == [transport |-> "-", shape |-> "-", obj |-> EmptyDict]

\* the question the pre-filter LLM may hand back as clean_question
Rewritten == <<"ktp", "ktp", "di", "Medan">>

NoCleanQuestion == [kind |-> "absent", text |-> <<>>]

PreObjects ==
    [valid : {"True", "False", "None", "absent"}, reason : {"str"},
     clean_question : {NoCleanQuestion, [kind |-> "null", text |-> <<>>],
                       [kind |-> "str", text |-> Rewritten]}]

EmptyPreDict ==
    [valid |-> "absent", reason |-> "absent", clean_question |-> NoCleanQuestion]

PreReplies ==
         {[transport |-> "timeout", shape |-> "-", obj |-> EmptyPreDict],
          [transport |-> "ok", shape |-> "no_json", obj |-> EmptyPreDict]}
    \cup {[transport |-> "ok", shape |-> "object", obj |-> o] :
             o \in PreObjects}

\* the text of the first candidate part, stripped, or None
call_gemini_llm(reply) ==
    IF reply.transport # "ok"
    THEN [kind |-> "None", shape |-> "-", obj |-> reply.obj]
    ELSE IF reply.shape = "empty"
    THEN [kind |-> "empty", shape |-> "-", obj |-> reply.obj]
    ELSE [kind |-> "text", shape |-> reply.shape, obj |-> reply.obj]

\* not llm_content
Falsy(llm_content) == llm_content.kind \in {"None", "empty"}

\* the object between the first "{" and the last "}", or None
extract_json(text) ==
    IF Falsy(text) THEN [ok |-> FALSE, obj |-> text.obj]
    ELSE IF text.shape = "object" THEN [ok |-> TRUE, obj |-> text.obj]
    ELSE [ok |-> FALSE, obj |-> text.obj]

ai_pre_filter_llm_first(question, reply) ==
    LET hard == hard_filter_local(question)
        llm_content == call_gemini_llm(reply)
        parsed == extract_json(llm_content)
        passed == [valid |-> "True", reason |-> "str",
                   clean_question |-> [kind |-> "str", text |-> question]]
    IN  IF hard.valid # "True"
        THEN [result |-> hard, calls |-> <<"db", "llm">>]
        ELSE IF Falsy(llm_content) \/ ~parsed.ok \/ parsed.obj = EmptyPreDict
        THEN [result |-> passed, calls |-> <<"db", "llm">>]
        ELSE [result |-> parsed.obj, calls |-> <<"db", "llm">>]

\* an ai_pre_filter that rejects the question when the LLM gives no text
ai_pre_filter_rejecting(question, reply) ==
    LET hard == hard_filter_local(question)
        llm_content == call_gemini_llm(reply)
        parsed == extract_json(llm_content)
    IN  IF hard.valid # "True"
        THEN [result |-> hard, calls |-> <<>>]
        ELSE IF Falsy(llm_content)
        THEN [result |-> [valid |-> "False", reason |-> "LLM error",
                          clean_question |-> [kind |-> "str", text |-> question]],
              calls |-> <<"db", "llm">>]
        ELSE IF ~parsed.ok \/ parsed.obj = EmptyPreDict
        THEN [result |-> [valid |-> "True",
                          reason |-> "AI tidak mengembalikan JSON",
                          clean_question |-> [kind |-> "str", text |-> question]],
              calls |-> <<"db", "llm">>]
        ELSE [result |-> parsed.obj, calls |-> <<"db", "llm">>]

\* result: the dict returned; calls: the external calls made on the way
ai_pre_filter(question, reply) ==
    LET hard == hard_filter_local(question)
        llm_content == call_gemini_llm(reply)
        parsed == extract_json(llm_content)
    IN  IF hard.valid # "True"
        THEN [result |-> hard, calls |-> <<>>]
        ELSE IF Falsy(llm_content)
        THEN [result |-> [valid |-> "True", reason |-> "LLM error",
                          clean_question |-> [kind |-> "str", text |-> question]],
              calls |-> <<"db", "llm">>]
        ELSE IF ~parsed.ok \/ parsed.obj = EmptyPreDict
        THEN [result |-> [valid |-> "True",
                          reason |-> "AI tidak mengembalikan JSON",
                          clean_question |-> [kind |-> "str", text |-> question]],
              calls |-> <<"db", "llm">>]
        ELSE [result |-> parsed.obj, calls |-> <<"db", "llm">>]

\* result: the verdict returned; calls: the external calls made on the way.
\* A reformulated_question that is no string makes .strip() raise, which the
\* last except clause turns into the default verdict.
ai_check_relevance(reply) ==
    LET llm_content == call_gemini_llm(reply)
        parsed == extract_json(llm_content)
        calls == <<"db", "llm">>
    IN  IF Falsy(llm_content)
        THEN [result |-> [relevant |-> "True", reason |-> "LLM error",
                          reformulated_question |-> "empty_str"],
              calls |-> calls]
        ELSE IF ~parsed.ok \/ parsed.obj = EmptyDict
        THEN [result |-> [relevant |-> "True", reason |-> "invalid JSON",
                          reformulated_question |-> "empty_str"],
              calls |-> calls]
        ELSE IF parsed.obj.reformulated_question = "nonstring"
        THEN [result |-> [relevant |-> "True",
                          reason |-> "AI relevance check failed",
                          reformulated_question |-> "empty_str"],
              calls |-> calls]
        ELSE IF parsed.obj.reformulated_question = "long"
        THEN [result |-> [parsed.obj EXCEPT !.reformulated_question = "truncated"],
              calls |-> calls]
        ELSE [result |-> parsed.obj, calls |-> calls]

\* log entries of the calls made by one caller
Tag(by, calls) == [i \in 1..Len(calls) |-> [by |-> by, call |-> calls[i]]]

---------------------------------------------------------------------------
\* The knowledge_bank index and the document service, as the handler sees them.

\* dense scores of a hit: both sides of each threshold of the tiers
DenseVals == {900, 895, 885, 860, 835, 829}

\* keyword_overlap(normalized_question, hit question) of a hit
OverlapVals == {0, 100, 150, 250, 1000}

Hits == [dense : DenseVals, overlap : OverlapVals]

\* limit of the knowledge_bank query of routes/search_routes.search
SearchLimit == 5
\* limit of the category-filtered query of app.search
AppFirstLimit == 3
\* app.search queries again, unfiltered, when the first query returns fewer
AppMinCandidates == 3
\* limit of the second query of app.search
AppSecondLimit == 5

Min(a, b) == IF a <= b THEN a ELSE b

\* what qdrant.search may return: at most limit hits, best dense score first
HitLists(limit) ==
    {h \in SeqsUpTo(Hits, Min(limit, MaxHits)) :
        \A i \in 1..(Len(h) - 1) : h[i].dense >= h[i + 1].dense}

\* the top document of a doc-search answer; score in ten-thousandths
DocHits ==
    {[text |-> "excerpt", filename |-> "perda.pdf", page_number |-> "p3",
      opd |-> "dukcapil", has_score |-> b, score |-> 8127] :
        b \in BOOLEAN}

NoDocHit ==
    [text |-> "-", filename |-> "-", page_number |-> "-", opd |-> "-",
     has_score |-> FALSE, score |-> 0]

\* ways the POST to /api/doc-search ends without a usable top document
DocFailures ==
    {"conn_error", "timeout", "http_error", "bad_body", "not_dict",
     "status_not_success", "no_results"}

DocResponses ==
         {[outcome |-> o, top |-> NoDocHit] : o \in DocFailures}
    \cup {[outcome |-> "hit", top |-> d] : d \in DocHits}

NoDocResponse == [outcome |-> "not_called", top |-> NoDocHit]

---------------------------------------------------------------------------
\* Scoring.

\* round(x / 1000, 3) for x in millionths.  Python rounds the double nearest
\* to the sum; on DenseVals x OverlapVals that is the nearest thousandth,
\* the halves going up (0.65*0.9 + 0.35*0.25 gives 0.673).
Round3(x) == (x + 500) \div 1000

\* round(score / 10000, 3) of a document score
RoundScore(s) == (s + 5) \div 10

final_score(dense_score, overlap_score) ==
    Round3(650 * dense_score + 350 * overlap_score)

\* the tiers with tier 1 starting above 0.90
classify_dense_above(dense_score, overlap_score, relevance) ==
    IF dense_score > 900
    THEN [is_accepted |-> TRUE, acceptance_note |-> "auto_accepted_by_dense"]
    ELSE IF 860 <= dense_score /\ dense_score <= 890 /\ overlap_score >= 250
    THEN [is_accepted |-> TRUE, acceptance_note |-> "accepted_by_overlap"]
    ELSE IF /\ dense_score >= 830
            /\ overlap_score >= 150
            /\ Truthy(Get(relevance, "relevant", "False"))
    THEN [is_accepted |-> TRUE, acceptance_note |-> "accepted_by_ai_relevance"]
    ELSE [is_accepted |-> FALSE, acceptance_note |-> "-"]

\* the tiers with tier 2 asking for the judge's consent
classify_overlap_judged(dense_score, overlap_score, relevance) ==
    IF dense_score >= 900
    THEN [is_accepted |-> TRUE, acceptance_note |-> "auto_accepted_by_dense"]
    ELSE IF /\ 860 <= dense_score /\ dense_score <= 890 /\ overlap_score >= 250
            /\ Truthy(Get(relevance, "relevant", "False"))
    THEN [is_accepted |-> TRUE, acceptance_note |-> "accepted_by_overlap"]
    ELSE IF /\ dense_score >= 830
            /\ overlap_score >= 150
            /\ Truthy(Get(relevance, "relevant", "False"))
    THEN [is_accepted |-> TRUE, acceptance_note |-> "accepted_by_ai_relevance"]
    ELSE [is_accepted |-> FALSE, acceptance_note |-> "-"]

\* the tiers with the judge tier tried before the overlap tier
classify_judge_first(dense_score, overlap_score, relevance) ==
    IF dense_score >= 900
    THEN [is_accepted |-> TRUE, acceptance_note |-> "auto_accepted_by_dense"]
    ELSE IF /\ dense_score >= 830
            /\ overlap_score >= 150
            /\ Truthy(Get(relevance, "relevant", "False"))
    THEN [is_accepted |-> TRUE, acceptance_note |-> "accepted_by_ai_relevance"]
    ELSE IF 860 <= dense_score /\ dense_score <= 890 /\ overlap_score >= 250
    THEN [is_accepted |-> TRUE, acceptance_note |-> "accepted_by_overlap"]
    ELSE [is_accepted |-> FALSE, acceptance_note |-> "-"]

\* the acceptance tiers of the scoring loop
classify(dense_score, overlap_score, relevance) ==
    IF dense_score >= 900
    THEN [is_accepted |-> TRUE, acceptance_note |-> "auto_accepted_by_dense"]
    ELSE IF 860 <= dense_score /\ dense_score <= 890 /\ overlap_score >= 250
    THEN [is_accepted |-> TRUE, acceptance_note |-> "accepted_by_overlap"]
    ELSE IF /\ dense_score >= 830
            /\ overlap_score >= 150
            /\ Truthy(Get(relevance, "relevant", "False"))
    THEN [is_accepted |-> TRUE, acceptance_note |-> "accepted_by_ai_relevance"]
    ELSE [is_accepted |-> FALSE, acceptance_note |-> "-"]

\* the result_item of hit number rank
result_item(rank, hit, relevance) ==
    [rank |-> rank,
     dense_score |-> hit.dense,
     overlap_score |-> hit.overlap,
     final_score |-> final_score(hit.dense, hit.overlap),
     note |-> classify(hit.dense, hit.overlap, relevance).acceptance_note,
     answer_doc |-> ""]

\* the items of the hits, in hit order, the tiers accepted (or rejected)
scored(hits, relevance, accepted) ==
    LET keep == {i \in 1..Len(hits) :
                    classify(hits[i].dense, hits[i].overlap,
                             relevance).is_accepted = accepted}
        F[i \in 0..Len(hits)] ==
            IF i = 0 THEN <<>>
            ELSE IF i \in keep
                 THEN Append(F[i - 1], result_item(i, hits[i], relevance))
                 ELSE F[i - 1]
    IN  F[Len(hits)]

RECURSIVE insert_desc(_, _)
insert_desc(x, s) ==
    IF s = <<>> THEN <<x>>
    ELSE IF Head(s).final_score >= x.final_score
         THEN <<Head(s)>> \o insert_desc(x, Tail(s))
         ELSE <<x>> \o s

\* the sort left out
sorted_desc_skipped(items) == items

\* sorted(items, key=final_score, reverse=True): stable, equal keys keep order
RECURSIVE sorted_desc(_)
sorted_desc(items) ==
    IF items = <<>> THEN <<>>
    ELSE insert_desc(items[Len(items)],
                     sorted_desc(SubSeq(items, 1, Len(items) - 1)))

---------------------------------------------------------------------------
\* The response.

NoDocInfo == [filename |-> "absent", page_number |-> "absent", opd |-> "absent"]

\* code 0: no response yet.  final_score_top is <<>> where the body has "-".
NoResponse ==
    [code |-> 0, status |-> "-", source |-> "absent",
     similar_questions |-> <<>>, final_score_top |-> <<>>,
     document_info |-> NoDocInfo, answer_text |-> "absent"]

\* {"status": "error", "message": "Field 'question' wajib diisi"}, 400
missing_question_response == [NoResponse EXCEPT !.code = 400, !.status = "error"]

\* error_response("ServerError", ...), 500
error_response == [NoResponse EXCEPT !.code = 500, !.status = "error"]

\* the body returned when the pre-filter says the question is not valid
filtered_out_response ==
    [NoResponse EXCEPT !.code = 200, !.status = "low_confidence"]

\* the response_payload built from the text-bank results
text_payload(v, accepted, rejected) ==
    [code |-> 200,
     status |-> IF accepted # <<>> THEN "success" ELSE "low_confidence",
     source |-> IF v = "routes" THEN "text" ELSE "absent",
     similar_questions |-> IF accepted # <<>> THEN accepted ELSE rejected,
     final_score_top |->
        IF accepted # <<>> THEN <<accepted[1].final_score>> ELSE <<>>,
     document_info |-> NoDocInfo,
     answer_text |-> "absent"]

\* the payload routes/search_routes.search builds from a relevant document
document_payload(top, document_text) ==
    [code |-> 200,
     status |-> "success",
     source |-> "document",
     similar_questions |->
        <<[rank |-> 0,
           dense_score |-> RoundScore(IF top.has_score THEN top.score ELSE 0),
           overlap_score |-> 0,
           final_score |-> RoundScore(IF top.has_score THEN top.score ELSE 0),
           note |-> "from_document_rag",
           answer_doc |-> document_text]>>,
     final_score_top |->
        <<RoundScore(IF top.has_score THEN top.score ELSE 0)>>,
     document_info |->
        [filename |-> top.filename, page_number |-> top.page_number,
         opd |-> top.opd],
     answer_text |-> "absent"]

\* the payload app.search builds from the top document
app_document_payload(top) ==
    [code |-> 200,
     status |-> "success",
     source |-> "document",
     similar_questions |-> <<>>,
     final_score_top |->
        <<RoundScore(IF top.has_score THEN top.score ELSE 0)>>,
     document_info |->
        [filename |-> top.filename, page_number |-> top.page_number,
         opd |-> "absent"],
     answer_text |-> top.text]

\* relevance_result.get("relevant", True), as a condition
is_question_relevant(relevance) == Truthy(Get(relevance, "relevant", "True"))

\* the fallback decision that forgets the judge
should_fallback_on_empty(hits, relevance) == Len(hits) = 0

\* should_fallback_to_document of routes/search_routes.search
should_fallback_to_document(hits, relevance) ==
    Len(hits) = 0 \/ ~is_question_relevant(relevance)

\* the fallback decision of app.search without its status test
should_fallback_no_status(payload, results) ==
    \/ payload.similar_questions = <<>>
    \/ (results # <<>> /\ results[1].final_score < 850)

\* should_fallback of app.search
should_fallback(payload, results) ==
    \/ payload.status = "low_confidence"
    \/ payload.similar_questions = <<>>
    \/ (results # <<>> /\ results[1].final_score < 850)

\* a document query sent again when the first one gave no usable hit
doc_query_retried(doc) ==
    IF doc.outcome = "hit" THEN <<"doc">> ELSE <<"doc", "doc">>

\* the requests.post to /api/doc-search of the fallback block: one call,
\* whatever comes back
doc_query(doc) == <<"doc">>

\* the fallback block that leaves the payload alone when the document
\* service gives no usable hit
routes_fallback_keeps_source(payload, doc, verdict) ==
    IF doc.outcome # "hit"
    THEN payload
    ELSE IF ~Truthy(Get(verdict, "relevant", "False"))
    THEN [payload EXCEPT !.source = "none"]
    ELSE IF ~doc.top.has_score
    THEN [document_payload(doc.top, doc.top.text) EXCEPT !.source = "none"]
    ELSE document_payload(doc.top, doc.top.text)

\* the fallback block that returns the top document whatever the verdict
routes_fallback_unjudged(payload, doc, verdict) ==
    IF doc.outcome # "hit"
    THEN [payload EXCEPT !.source = "none"]
    ELSE IF ~doc.top.has_score
    THEN [document_payload(doc.top, doc.top.text) EXCEPT !.source = "none"]
    ELSE document_payload(doc.top, doc.top.text)

\* what the fallback block of routes/search_routes.search leaves in
\* response_payload, and the verdict on the excerpt.  The summary log line
\* formats the score with :.3f and raises when the hit has none; the outer
\* except then marks the payload already built.
routes_fallback(payload, doc, verdict) ==
    IF doc.outcome # "hit"
    THEN [payload EXCEPT !.source = "none"]
    ELSE IF ~Truthy(Get(verdict, "relevant", "False"))
    THEN [payload EXCEPT !.source = "none"]
    ELSE IF ~doc.top.has_score
    THEN [document_payload(doc.top, doc.top.text) EXCEPT !.source = "none"]
    ELSE document_payload(doc.top, doc.top.text)

\* what the fallback block of app.search leaves in payload
app_fallback(payload, doc) ==
    IF doc.outcome # "hit"
    THEN [payload EXCEPT !.source = "none"]
    ELSE IF ~doc.top.has_score
    THEN [app_document_payload(doc.top) EXCEPT !.source = "none"]
    ELSE app_document_payload(doc.top)

---------------------------------------------------------------------------
\* One request to /api/search.

\* raw words a question is made of
Vocab == {"ktp", "Jakarta", "ter-baik"}

Questions == SeqsUpTo(Vocab, MaxTokens)

Init ==
    /\ PipelineIdle
    /\ variant \in {"routes", "app"}
    /\ pc = "idle"
    /\ user_question = <<>>
    /\ normalized_question = <<>>
    /\ qdrant_results = <<>>
    /\ relevance_result = EmptyDict
    /\ accepted_results = <<>>
    /\ rejected_results = <<>>
    /\ response_payload = NoResponse
    /\ doc_response = NoDocResponse
    /\ doc_relevance_result = EmptyDict
    /\ log = <<>>
    /\ judge_reply = NoReply
    /\ pre_reply = NoReply

\* request.json is read; the question is stripped
Receive ==
    /\ UNCHANGED pipeline_vars
    /\ pc = "idle"
    /\ \E q \in Questions : user_question' = q
    /\ pc' = "received"
    /\ UNCHANGED <<variant, normalized_question, qdrant_results,
                   relevance_result, accepted_results, rejected_results,
                   response_payload, doc_response, doc_relevance_result, log,
                   judge_reply>>

\* the empty-question check, ai_pre_filter, the early return on a question
\* that is not valid, and the normalisation of the clean question.  A
\* clean_question of null makes re.sub raise: the handler answers 500.
PreFilterWith(reply) ==
    /\ UNCHANGED pipeline_vars
    /\ pc = "received"
    /\ IF user_question = <<>>
       THEN /\ response_payload' = missing_question_response
            /\ pc' = "done"
            /\ UNCHANGED <<normalized_question, log>>
       ELSE LET pre == ai_pre_filter(user_question, reply)
                pre_filter_result == pre.result
                cq == pre_filter_result.clean_question
            IN  /\ log' = log \o Tag("pre_filter", pre.calls)
                /\ IF ~Truthy(Get(pre_filter_result, "valid", "True"))
                   THEN /\ response_payload' = filtered_out_response
                        /\ pc' = "done"
                        /\ UNCHANGED normalized_question
                   ELSE IF cq.kind = "null"
                   THEN /\ response_payload' = error_response
                        /\ pc' = "done"
                        /\ UNCHANGED normalized_question
                   ELSE /\ normalized_question' =
                              normalize_text(clean_location_terms(
                                  IF cq.kind = "absent" THEN user_question
                                  ELSE cq.text))
                        /\ pc' = "prefiltered"
                        /\ UNCHANGED response_payload
    /\ UNCHANGED <<variant, user_question, qdrant_results, relevance_result,
                   accepted_results, rejected_results, doc_response,
                   doc_relevance_result, judge_reply>>

PreFilter == \E reply \in PreReplies : PreFilterWith(reply)

\* model.encode raises: the outer except answers 500
EmbedFails ==
    /\ UNCHANGED pipeline_vars
    /\ pc = "prefiltered"
    /\ log' = Append(log, [by |-> "search", call |-> "embed"])
    /\ response_payload' = error_response
    /\ pc' = "done"
    /\ UNCHANGED <<variant, user_question, normalized_question, qdrant_results,
                   relevance_result, accepted_results, rejected_results,
                   doc_response, doc_relevance_result, judge_reply>>

\* qdrant.search raises: the outer except answers 500
IndexFails ==
    /\ UNCHANGED pipeline_vars
    /\ pc = "prefiltered"
    /\ log' = log \o <<[by |-> "search", call |-> "embed"],
                       [by |-> "search", call |-> "index"]>>
    /\ response_payload' = error_response
    /\ pc' = "done"
    /\ UNCHANGED <<variant, user_question, normalized_question, qdrant_results,
                   relevance_result, accepted_results, rejected_results,
                   doc_response, doc_relevance_result, judge_reply>>

\* the question is embedded and knowledge_bank queried.  app.search queries
\* a second time when the first query returns fewer than three hits; of a
\* first result that is replaced only the length n matters.
Search ==
    /\ UNCHANGED pipeline_vars
    /\ pc = "prefiltered"
    /\ IF variant = "routes"
       THEN /\ \E h \in HitLists(SearchLimit) : qdrant_results' = h
            /\ log' = log \o <<[by |-> "search", call |-> "embed"],
                               [by |-> "search", call |-> "index"]>>
       ELSE \E n \in 0..Min(AppFirstLimit, MaxHits) :
            IF n < AppMinCandidates
            THEN /\ \E h \in HitLists(AppSecondLimit) : qdrant_results' = h
                 /\ log' = log \o <<[by |-> "search", call |-> "embed"],
                                    [by |-> "search", call |-> "index"],
                                    [by |-> "search", call |-> "index"]>>
            ELSE /\ \E h \in HitLists(AppFirstLimit) :
                        Len(h) = n /\ qdrant_results' = h
                 /\ log' = log \o <<[by |-> "search", call |-> "embed"],
                                    [by |-> "search", call |-> "index"]>>
    /\ pc' = "searched"
    /\ UNCHANGED <<variant, user_question, normalized_question,
                   relevance_result, accepted_results, rejected_results,
                   response_payload, doc_response, doc_relevance_result,
                   judge_reply>>

\* the judge is asked about the top hit, when there is one
JudgeTop ==
    /\ UNCHANGED pipeline_vars
    /\ pc = "searched"
    /\ IF qdrant_results = <<>>
       THEN UNCHANGED <<relevance_result, log>>
       ELSE \E reply \in SearchJudgeReplies :
            LET judged == ai_check_relevance(reply)
            IN  /\ relevance_result' = judged.result
                /\ log' = log \o Tag("judge_text", judged.calls)
    /\ pc' = "judged"
    /\ UNCHANGED <<variant, user_question, normalized_question, qdrant_results,
                   accepted_results, rejected_results, response_payload,
                   doc_response, doc_relevance_result, judge_reply>>

\* the scoring loop and the two sorts
Score ==
    /\ UNCHANGED pipeline_vars
    /\ pc = "judged"
    /\ accepted_results' =
          sorted_desc(scored(qdrant_results, relevance_result, TRUE))
    /\ rejected_results' =
          sorted_desc(scored(qdrant_results, relevance_result, FALSE))
    /\ pc' = "scored"
    /\ UNCHANGED <<variant, user_question, normalized_question, qdrant_results,
                   relevance_result, response_payload, doc_response,
                   doc_relevance_result, log, judge_reply>>

\* routes/search_routes.search empties accepted_results when the verdict is
\* not relevant; both variants then build the payload of the text results
BuildPayload ==
    /\ UNCHANGED pipeline_vars
    /\ pc = "scored"
    /\ accepted_results' =
          IF variant = "routes" /\ ~is_question_relevant(relevance_result)
          THEN <<>>
          ELSE accepted_results
    /\ response_payload' =
          text_payload(variant, accepted_results', rejected_results)
    /\ pc' = "payload"
    /\ UNCHANGED <<variant, user_question, normalized_question, qdrant_results,
                   relevance_result, rejected_results, doc_response,
                   doc_relevance_result, log, judge_reply>>

\* the fallback block of routes/search_routes.search, and the return
FallbackRoutes ==
    /\ UNCHANGED pipeline_vars
    /\ pc = "payload"
    /\ variant = "routes"
    /\ IF should_fallback_to_document(qdrant_results, relevance_result)
       THEN \E doc \in DocResponses :
            /\ doc_response' = doc
            /\ IF doc.outcome = "hit"
               THEN \E reply \in SearchJudgeReplies :
                    LET judged == ai_check_relevance(reply)
                    IN  /\ doc_relevance_result' = judged.result
                        /\ log' = log \o Tag("fallback", doc_query(doc))
                                      \o Tag("judge_doc", judged.calls)
                        /\ response_payload' =
                              routes_fallback(response_payload, doc,
                                              judged.result)
               ELSE /\ UNCHANGED doc_relevance_result
                    /\ log' = log \o Tag("fallback", doc_query(doc))
                    /\ response_payload' =
                          routes_fallback(response_payload, doc, EmptyDict)
       ELSE UNCHANGED <<doc_response, doc_relevance_result, log,
                        response_payload>>
    /\ pc' = "done"
    /\ UNCHANGED <<variant, user_question, normalized_question, qdrant_results,
                   relevance_result, accepted_results, rejected_results,
                   judge_reply>>

\* the fallback block of app.search, and the return
FallbackApp ==
    /\ UNCHANGED pipeline_vars
    /\ pc = "payload"
    /\ variant = "app"
    /\ IF should_fallback(response_payload, accepted_results)
       THEN \E doc \in DocResponses :
            /\ doc_response' = doc
            /\ log' = Append(log, [by |-> "fallback", call |-> "doc"])
            /\ response_payload' = app_fallback(response_payload, doc)
       ELSE UNCHANGED <<doc_response, log, response_payload>>
    /\ pc' = "done"
    /\ UNCHANGED <<variant, user_question, normalized_question, qdrant_results,
                   relevance_result, accepted_results, rejected_results,
                   doc_relevance_result, judge_reply>>

Next ==
    \/ Receive
    \/ PreFilter
    \/ EmbedFails
    \/ IndexFails
    \/ Search
    \/ JudgeTop
    \/ Score
    \/ BuildPayload
    \/ FallbackRoutes
    \/ FallbackApp

Spec == Init /\ [][Next]_vars

---------------------------------------------------------------------------
\* The judge adapter on its own: one call of ai_check_relevance on each
\* reply the LLM may give.

InitJudge ==
    /\ PipelineIdle
    /\ variant \in {"routes", "app"}
    /\ pc = "judge_call"
    /\ judge_reply \in JudgeReplies
    /\ pre_reply = NoReply
    /\ user_question = <<>>
    /\ normalized_question = <<>>
    /\ qdrant_results = <<>>
    /\ relevance_result = EmptyDict
    /\ accepted_results = <<>>
    /\ rejected_results = <<>>
    /\ response_payload = NoResponse
    /\ doc_response = NoDocResponse
    /\ doc_relevance_result = EmptyDict
    /\ log = <<>>

JudgeAlone ==
    /\ UNCHANGED pipeline_vars
    /\ pc = "judge_call"
    /\ LET judged == ai_check_relevance(judge_reply)
       IN  /\ relevance_result' = judged.result
           /\ log' = Tag("judge", judged.calls)
    /\ pc' = "judge_returned"
    /\ UNCHANGED <<variant, user_question, normalized_question, qdrant_results,
                   accepted_results, rejected_results, response_payload,
                   doc_response, doc_relevance_result, judge_reply>>

NextJudge == JudgeAlone

SpecJudge == InitJudge /\ [][NextJudge]_vars

---------------------------------------------------------------------------
\* /api/search with the reply of the pre-filter LLM given, up to the index
\* query: every way the call fails, every text without an object, and the
\* objects.

LonePreReplies ==
         {[transport |-> t, shape |-> "-", obj |-> EmptyPreDict] :
             t \in FailedTransports}
    \cup {[transport |-> "ok", shape |-> sh, obj |-> EmptyPreDict] :
             sh \in NonObjectShapes}
    \cup {[transport |-> "ok", shape |-> "object", obj |-> o] :
             o \in PreObjects}

InitPre ==
    /\ PipelineIdle
    /\ variant \in {"routes", "app"}
    /\ pc = "received"
    /\ user_question \in Questions
    /\ pre_reply \in LonePreReplies
    /\ judge_reply = NoReply
    /\ normalized_question = <<>>
    /\ qdrant_results = <<>>
    /\ relevance_result = EmptyDict
    /\ accepted_results = <<>>
    /\ rejected_results = <<>>
    /\ response_payload = NoResponse
    /\ doc_response = NoDocResponse
    /\ doc_relevance_result = EmptyDict
    /\ log = <<>>

\* the pre-filter step of the handler, the LLM answering pre_reply
PreFilterGiven == PreFilterWith(pre_reply)

NextPre ==
    \/ PreFilterGiven
    \/ EmbedFails
    \/ IndexFails
    \/ Search

SpecPre == InitPre /\ [][NextPre]_vars

---------------------------------------------------------------------------
\* core/document_pipeline.py: _semantic_merge_pages.
\* A page text is the sequence of the parts the splitter cuts it into; a
\* part is named by its text.  Similarities are in ten-thousandths.

\* texts of the parts
SeedTexts == {"s1", "s2", "s3", "s4"}

\* what a page may hold: nothing, one part, or two parts in split order
PageTexts == {<<>>, <<"s1">>, <<"s2">>, <<"s3">>, <<"s4">>, <<"s1", "s2">>}

\* number of pages of a document
MaxPages == 3

\* sim_threshold=0.80
sim_threshold == 8000

\* util.cos_sim of the embeddings of two texts, four unit vectors of a
\* plane: s1 and s2 are at 0.80 exactly, s2 and s3 at 0.7999, s4 lies
\* between s2 and s3 and is close to both, far from s1
cos_sim(a, b) ==
    IF a = b THEN 10000
    ELSE IF {a, b} = {"s1", "s2"} THEN 8000
    ELSE IF {a, b} = {"s2", "s3"} THEN 7999
    ELSE IF {a, b} = {"s2", "s4"} THEN 8500
    ELSE IF {a, b} = {"s3", "s4"} THEN 9961
    ELSE IF {a, b} = {"s1", "s4"} THEN 3640
    ELSE 2800

\* _detect_section of one part: s3 opens with a heading
part_section(t) == IF t = "s3" THEN "BAB II" ELSE ""

\* _detect_section(text): the first heading in the text, or ""
RECURSIVE detect_section(_)
detect_section(text) ==
    IF text = <<>> THEN ""
    ELSE IF part_section(Head(text)) # "" THEN part_section(Head(text))
    ELSE detect_section(Tail(text))

\* page maps: distinct page numbers in any insertion order, a text each
PageMaps ==
    {p \in SeqsUpTo([pnum : 1..MaxPages, text : PageTexts], MaxPages) :
        \A i, j \in 1..Len(p) : p[i].pnum = p[j].pnum => i = j}

\* pages[pnum]
page_text(pgs, pnum) ==
    LET i == CHOOSE i \in 1..Len(pgs) : pgs[i].pnum = pnum IN pgs[i].text

\* sorted(pages.keys())
sorted_keys(pgs) ==
    LET ks == {pgs[i].pnum : i \in 1..Len(pgs)}
        F[n \in 0..MaxPages + 1] ==
            IF n = 0 THEN <<>>
            ELSE IF n \in ks THEN Append(F[n - 1], n) ELSE F[n - 1]
    IN  F[MaxPages + 1]

\* items: the (page number, part) pairs, pages in key order, parts in split
\* order, blank pages skipped
RECURSIVE page_items(_, _)
page_items(pgs, keys) ==
    IF keys = <<>> THEN <<>>
    ELSE LET parts == page_text(pgs, Head(keys))
         IN  [k \in 1..Len(parts) |-> [pnum |-> Head(keys), part |-> parts[k]]]
                \o page_items(pgs, Tail(keys))

seed_items(pgs) == page_items(pgs, sorted_keys(pgs))

\* a _flush() that appends nothing
flush_skipped(st) == st.chunks

\* _flush(): the buffer becomes a chunk
flush(st) ==
    Append(st.chunks,
           [text |-> st.buffer_text, page_start |-> st.buffer_start,
            page_end |-> st.buffer_end,
            section |-> IF st.buffer_section # "" THEN st.buffer_section
                        ELSE detect_section(st.buffer_text)])

\* prev_vec after a merge, in a merger that keeps the embedding the buffer
\* started with
prev_vec_of_buffer_start(st, i) == st.prev_vec

\* prev_vec after a merge: curr_vec, the embedding of part i
prev_vec_after_merge(st, i) == i

\* the merge test read as strictly above the threshold
similar_strictly(sim) == sim > sim_threshold

\* sim >= sim_threshold
similar(sim) == sim >= sim_threshold

\* one round of the loop over items[1:], for part i.  prev_vec is the
\* number of the part whose embedding it holds, 0 for None; ncalls counts
\* the embed_passage calls made; compared lists the pairs cos_sim was given.
merge_step(st, items, i, fails) ==
    LET part == items[i].part
        pnum == items[i].pnum
        curr_ok == (st.ncalls + 1) \notin fails
        sim == IF curr_ok /\ st.prev_vec # 0
               THEN cos_sim(items[st.prev_vec].part, part) ELSE 0
        seen == IF curr_ok /\ st.prev_vec # 0
                THEN Append(st.compared, <<st.prev_vec, i>>) ELSE st.compared
    IN  IF st.raised THEN st
        ELSE IF similar(sim)
        THEN [st EXCEPT !.buffer_text = Append(st.buffer_text, part),
                        !.buffer_end = pnum,
                        !.buffer_section =
                            IF st.buffer_section = "" THEN part_section(part)
                            ELSE st.buffer_section,
                        !.prev_vec = prev_vec_after_merge(st, i),
                        !.ncalls = st.ncalls + 1,
                        !.compared = seen]
        ELSE [st EXCEPT !.chunks = flush(st),
                        !.buffer_text = <<part>>,
                        !.buffer_start = pnum,
                        !.buffer_end = pnum,
                        !.buffer_section = part_section(part),
                        !.prev_vec = i,
                        !.ncalls = st.ncalls + 2,
                        !.compared = seen,
                        !.raised = (st.ncalls + 2) \in fails]

RECURSIVE merge_loop(_, _, _, _)
merge_loop(st, items, i, fails) ==
    IF i > Len(items) THEN st
    ELSE merge_loop(merge_step(st, items, i, fails), items, i + 1, fails)

\* _semantic_merge_pages over the items given: the chunks, or raised when an
\* embed_passage call outside the try blocks raised
merge_items(items, fails) ==
    IF items = <<>>
    THEN [called |-> TRUE, raised |-> FALSE, chunks |-> <<>>,
          items |-> items, compared |-> <<>>]
    ELSE LET st0 == [chunks |-> <<>>,
                     buffer_text |-> <<items[1].part>>,
                     buffer_start |-> items[1].pnum,
                     buffer_end |-> items[1].pnum,
                     buffer_section |-> part_section(items[1].part),
                     prev_vec |-> IF 1 \in fails THEN 0 ELSE 1,
                     ncalls |-> 1,
                     compared |-> <<>>,
                     raised |-> FALSE]
             st == merge_loop(st0, items, 2, fails)
         IN  [called |-> TRUE, raised |-> st.raised,
              chunks |-> IF st.raised THEN <<>> ELSE flush(st),
              items |-> items, compared |-> st.compared]

\* the merger reading the pages in dict order
semantic_merge_unsorted(pgs, fails) ==
    merge_items(page_items(pgs, [i \in 1..Len(pgs) |-> pgs[i].pnum]), fails)

\* _semantic_merge_pages(model, pages)
semantic_merge_pages(pgs, fails) == merge_items(seed_items(pgs), fails)

\* one embed_passage call of the merge raises, or none does
EmbedFailures(pgs) ==
    {{}} \cup {{k} : k \in 1..(2 * Len(seed_items(pgs)))}

InitMerge ==
    /\ variant = "routes"
    /\ pc = "merge_call"
    /\ pages \in PageMaps
    /\ embed_failures \in EmbedFailures(pages)
    /\ merged = [called |-> FALSE, raised |-> FALSE, chunks |-> <<>>,
                 items |-> <<>>, compared |-> <<>>]
    /\ runs = <<>>
    /\ document_bank = [exists |-> FALSE, points |-> {}]
    /\ files_on_disk = {}
    /\ SyncIdle
    /\ OcrIdle
    /\ judge_reply = NoReply
    /\ pre_reply = NoReply
    /\ user_question = <<>>
    /\ normalized_question = <<>>
    /\ qdrant_results = <<>>
    /\ relevance_result = EmptyDict
    /\ accepted_results = <<>>
    /\ rejected_results = <<>>
    /\ response_payload = NoResponse
    /\ doc_response = NoDocResponse
    /\ doc_relevance_result = EmptyDict
    /\ log = <<>>

MergePages ==
    /\ pc = "merge_call"
    /\ merged' = semantic_merge_pages(pages, embed_failures)
    /\ pc' = "merge_returned"
    /\ UNCHANGED <<variant, user_question, normalized_question, qdrant_results,
                   relevance_result, accepted_results, rejected_results,
                   response_payload, doc_response, doc_relevance_result, log,
                   judge_reply, pages, embed_failures, runs, document_bank,
                   files_on_disk, sync_vars, ocr_vars, pre_reply>>

NextMerge == MergePages

SpecMerge == InitMerge /\ [][NextMerge]_vars

---------------------------------------------------------------------------
\* core/document_pipeline.py: process_document, _resolve_file and
\* _ensure_collection.  Several invocations may run at once (one per worker
\* process); they share the document_bank collection and the disk.

\* number of process_document invocations
MaxRuns == 2

RunIds == 1..MaxRuns

\* doc_id of a source document
DocIds == {"d1", "d2"}

\* a file path: a caller's local file under a directory, or the file
\* tempfile.mkstemp made for run r
LocalData == [kind |-> "local", dir |-> "/data", run |-> 0]
LocalTmp == [kind |-> "local", dir |-> "/tmp", run |-> 0]
LocalMissing == [kind |-> "local", dir |-> "/srv", run |-> 0]
TempFile(r) == [kind |-> "temp", dir |-> "/tmp", run |-> r]
NoPath == [kind |-> "None", dir |-> "-", run |-> 0]

\* file_url: "file://" + path, a bare path, or a remote URL
FileUrls ==
    {[scheme |-> "file", path |-> LocalData],
     [scheme |-> "file", path |-> LocalMissing],
     [scheme |-> "path", path |-> LocalTmp],
     [scheme |-> "http", path |-> NoPath]}

\* how a download ends: requests.get or raise_for_status raises, the write
\* into the file mkstemp made raises, or the file is written
DownloadOutcomes == {"get_failed", "write_failed", "ok"}

\* _resolve_file(url) in run r: the path returned or the exception raised,
\* and the files on disk afterwards
resolve_file(url, r, files, download) ==
    IF url.scheme = "file"
    THEN IF url.path \in files
         THEN [raised |-> "", path |-> url.path, files |-> files]
         ELSE [raised |-> "Local file not found", path |-> NoPath,
               files |-> files]
    ELSE IF url.scheme = "path" /\ url.path \in files
    THEN [raised |-> "", path |-> url.path, files |-> files]
    ELSE IF url.scheme = "path" \/ download = "get_failed"
    THEN [raised |-> "RequestException", path |-> NoPath, files |-> files]
    ELSE IF download = "write_failed"
    THEN [raised |-> "OSError", path |-> NoPath,
          files |-> files \cup {TempFile(r)}]
    ELSE [raised |-> "", path |-> TempFile(r),
          files |-> files \cup {TempFile(r)}]

\* what extract_text_from_file(tmp_path, return_pages=True) does: it raises,
\* or returns a dict with the keys 1..n
Extractions == {0} \cup (1..MaxPages)

\* lines 192-228 given that dict: `full_text, _ = ...` unpacks its keys, so
\* it raises unless there are two; with two, full_text is the key 1, an int,
\* and full_text.split (line 217) or len(full_text) (line 226) raises
extract_stage(path, files, n) ==
    IF path \notin files THEN "FileNotFoundError"
    ELSE IF n = 0 THEN "extract_text_from_file raised"
    ELSE IF n # 2 THEN "ValueError: values to unpack"
    ELSE "int has no len() / no split"

\* page maps handed to the chunking step: blank pages only, or three pages
\* that merge into two chunks
BlankPages == <<[pnum |-> 1, text |-> <<>>]>>
IngestPages ==
    <<[pnum |-> 1, text |-> <<"s2">>], [pnum |-> 2, text |-> <<"s1">>],
      [pnum |-> 3, text |-> <<"s3">>]>>
IngestPageMaps == {BlankPages, IngestPages}

\* "id": str(uuid.uuid4()): a fresh value for each chunk of each run
point_id(r, doc_id, i) == <<"uuid4", r, i>>

\* the points of lines 259-279
build_points(r, doc_id, chunks) ==
    [i \in 1..Len(chunks) |->
        [id |-> point_id(r, doc_id, i),
         mysql_id |-> doc_id,
         chunk_index |-> i - 1,
         page_start |-> chunks[i].page_start,
         page_end |-> chunks[i].page_end,
         text |-> chunks[i].text]]

\* Range of a sequence
Range(s) == {s[i] : i \in 1..Len(s)}

\* how qdrant.upsert ends: applied, refused, or applied with the client
\* timing out on the answer
UpsertOutcomes == {"ok", "refused", "timeout_after_apply"}

\* an upsert that stores the first point and then fails
upsert_first_then_fail(bank, points, outcome) ==
    IF outcome = "refused"
    THEN [bank EXCEPT !.points =
            {p \in @ : p.id # points[1].id} \cup {points[1]}]
    ELSE [bank EXCEPT !.points =
            {p \in @ : \A q \in Range(points) : q.id # p.id}
               \cup Range(points)]

\* qdrant.upsert(collection_name, points): one request, every point stored
\* under its id, replacing a point of the same id
upsert(bank, points, outcome) ==
    IF outcome = "refused" THEN bank
    ELSE [bank EXCEPT !.points =
            {p \in @ : \A q \in Range(points) : q.id # p.id}
               \cup Range(points)]

NoResult == [status |-> "-", message |-> "", total_chunks |-> 0]
error_result(message) ==
    [status |-> "error", message |-> message, total_chunks |-> 0]
ok_result(points) ==
    [status |-> "ok", message |-> "", total_chunks |-> Len(points)]

\* a run about to call _resolve_file
run_at_entry(doc_id, url) ==
    [pc |-> "resolve", entry |-> "resolve", doc_id |-> doc_id,
     file_url |-> url, tmp_path |-> NoPath, pages_map |-> <<>>,
     points |-> <<>>, upserted |-> FALSE, result |-> NoResult]

\* a run about to call _semantic_merge_pages on a page map, its source
\* downloaded to tmp_path
run_at_chunking(r, doc_id, pgs) ==
    [pc |-> "chunking", entry |-> "chunking", doc_id |-> doc_id,
     file_url |-> [scheme |-> "http", path |-> NoPath],
     tmp_path |-> TempFile(r), pages_map |-> pgs,
     points |-> <<>>, upserted |-> FALSE, result |-> NoResult]

\* Runs start at the entry of process_document, or at its chunking step
\* (line 230) with a page map in hand: the steps from there on are run on
\* their own, since extract_stage lets no run that starts at the entry
\* reach them.
InitIngest ==
    /\ variant = "routes"
    /\ pc = "ingest"
    /\ \/ /\ runs \in [RunIds -> {run_at_entry(d, u) :
                                     d \in DocIds, u \in FileUrls}]
          /\ files_on_disk = {LocalData, LocalTmp}
          /\ document_bank = [exists |-> FALSE, points |-> {}]
       \/ /\ \E ds \in [RunIds -> DocIds], ps \in [RunIds -> IngestPageMaps] :
                runs = [r \in RunIds |-> run_at_chunking(r, ds[r], ps[r])]
          /\ files_on_disk = {TempFile(r) : r \in RunIds}
          /\ document_bank \in {[exists |-> e, points |-> {}] : e \in BOOLEAN}
    /\ pages = <<>>
    /\ embed_failures = {}
    /\ merged = [called |-> FALSE, raised |-> FALSE, chunks |-> <<>>,
                 items |-> <<>>, compared |-> <<>>]
    /\ SyncIdle
    /\ OcrIdle
    /\ judge_reply = NoReply
    /\ pre_reply = NoReply
    /\ user_question = <<>>
    /\ normalized_question = <<>>
    /\ qdrant_results = <<>>
    /\ relevance_result = EmptyDict
    /\ accepted_results = <<>>
    /\ rejected_results = <<>>
    /\ response_payload = NoResponse
    /\ doc_response = NoDocResponse
    /\ doc_relevance_result = EmptyDict
    /\ log = <<>>

search_vars == <<variant, pc, user_question, normalized_question, qdrant_results,
                 relevance_result, accepted_results, rejected_results,
                 response_payload, doc_response, doc_relevance_result, log,
                 judge_reply, pages, embed_failures, merged, sync_vars,
                 ocr_vars, pre_reply>>

\* the except clause: the run goes to the finally clause with status error
failed(run, message) ==
    [run EXCEPT !.pc = "finally", !.result = error_result(message)]

\* step 1: tmp_path = _resolve_file(file_url)
Resolve(r) ==
    /\ runs[r].pc = "resolve"
    /\ \E download \in DownloadOutcomes :
       LET res == resolve_file(runs[r].file_url, r, files_on_disk, download)
       IN  /\ files_on_disk' = res.files
           /\ runs' = [runs EXCEPT ![r] =
                 IF res.raised # "" THEN failed(@, res.raised)
                 ELSE [@ EXCEPT !.pc = "extract", !.tmp_path = res.path]]
    /\ UNCHANGED <<search_vars, document_bank>>

\* step 2, lines 192-228: the file is measured, read, and the page map built
Extract(r) ==
    /\ runs[r].pc = "extract"
    /\ \E n \in Extractions :
          runs' = [runs EXCEPT ![r] =
             failed(@, extract_stage(runs[r].tmp_path, files_on_disk, n))]
    /\ UNCHANGED <<search_vars, document_bank, files_on_disk>>

\* steps 3 to 5 and line 285: merge, summaries (which fall back, never
\* raise), batch embedding, the points, the vector size of points[0]
ChunkAndEmbed(r) ==
    /\ runs[r].pc = "chunking"
    /\ \E fails \in EmbedFailures(runs[r].pages_map), batch_ok \in BOOLEAN :
       LET m == semantic_merge_pages(runs[r].pages_map, fails)
           pts == build_points(r, runs[r].doc_id, m.chunks)
       IN  runs' = [runs EXCEPT ![r] =
              IF m.raised THEN failed(@, "embed_passage raised")
              ELSE IF ~batch_ok THEN failed(@, "model.encode raised")
              ELSE IF pts = <<>> THEN failed(@, "list index out of range")
              ELSE [@ EXCEPT !.pc = "collection", !.points = pts]]
    /\ UNCHANGED <<search_vars, document_bank, files_on_disk>>

\* _ensure_collection: get_collection, and on any exception
\* recreate_collection, which drops the collection and creates it empty
ensure_collection(bank, check_raises, recreate_ok) ==
    IF bank.exists /\ ~check_raises THEN [raised |-> "", bank |-> bank]
    ELSE IF recreate_ok
    THEN [raised |-> "", bank |-> [exists |-> TRUE, points |-> {}]]
    ELSE [raised |-> "recreate_collection raised", bank |-> bank]

\* step 6: _ensure_collection(qdrant, collection_name, size)
EnsureCollection(r) ==
    /\ runs[r].pc = "collection"
    /\ \E check_raises \in BOOLEAN, recreate_ok \in BOOLEAN :
       LET res == ensure_collection(document_bank, check_raises, recreate_ok)
       IN  /\ document_bank' = res.bank
           /\ runs' = [runs EXCEPT ![r] =
                 IF res.raised # "" THEN failed(@, res.raised)
                 ELSE [@ EXCEPT !.pc = "upsert"]]
    /\ UNCHANGED <<search_vars, files_on_disk>>

\* step 7: qdrant.upsert(collection_name=collection_name, points=points)
Upsert(r) ==
    /\ runs[r].pc = "upsert"
    /\ \E outcome \in UpsertOutcomes :
       /\ document_bank' = upsert(document_bank, runs[r].points, outcome)
       /\ runs' = [runs EXCEPT ![r] =
             IF outcome = "ok"
             THEN [@ EXCEPT !.pc = "finally", !.upserted = TRUE,
                            !.result = ok_result(runs[r].points)]
             ELSE [failed(@, "upsert raised") EXCEPT
                      !.upserted = (outcome = "timeout_after_apply")]]
    /\ UNCHANGED <<search_vars, files_on_disk>>

\* the finally clause: tmp_path is removed when it is set, starts with
\* "/tmp" and exists
cleanup(run, r, files) ==
    IF run.tmp_path # NoPath /\ run.tmp_path.dir = "/tmp"
    THEN files \ {run.tmp_path}
    ELSE files

\* the finally clause, and the return
Finally(r) ==
    /\ runs[r].pc = "finally"
    /\ files_on_disk' = cleanup(runs[r], r, files_on_disk)
    /\ runs' = [runs EXCEPT ![r].pc = "returned"]
    /\ UNCHANGED <<search_vars, document_bank>>

NextIngest ==
    \E r \in RunIds :
        \/ Resolve(r)
        \/ Extract(r)
        \/ ChunkAndEmbed(r)
        \/ EnsureCollection(r)
        \/ Upsert(r)
        \/ Finally(r)

SpecIngest == InitIngest /\ [][NextIngest]_vars

---------------------------------------------------------------------------
\* routes/sync_routes.py and routes/usulan_routes.py: /api/sync and
\* /api/sync-usulan.  An entry is a row of the source database:
\* question_rag_id and question_rag_name for the knowledge bank,
\* request_rag_id and request_rag_name for the proposal bank.

EntryIds == {1, 2}
EntryNames == {"q1", "q2"}
Entries == [rag_id : EntryIds, rag_name : EntryNames]

\* str(item["question_rag_id"])
str_id(n) == IF n = 1 THEN "1" ELSE "2"

\* the point built from an entry: the vector is the embedding of its name
sync_point(e) ==
    [id |-> str_id(e.rag_id), vector |-> <<"passage", e.rag_name>>,
     payload |-> [rag_name |-> e.rag_name]]

\* content of a bulk_sync: rows of the source table, an id once each
BulkContents ==
    {c \in SeqsUpTo(Entries, 2) :
        \A i, j \in 1..Len(c) : c[i].rag_id = c[j].rag_id => i = j}

\* request bodies: well-formed ones, and the ones the handler turns away
SyncRequests ==
         [action : {"bulk_sync"}, shape : {"ok"}, content : BulkContents]
    \cup [action : {"add", "update", "delete"}, shape : {"ok"},
          content : {<<e>> : e \in Entries}]
    \cup [action : {"add"},
          shape : {"no_action", "unknown_action", "missing_key"},
          content : {<<[rag_id |-> 1, rag_name |-> "q1"]>>}]
    \cup [action : {"bulk_sync"}, shape : {"content_not_list", "missing_key"},
          content : {<<[rag_id |-> 1, rag_name |-> "q1"]>>}]

\* how the calls to the vector index end: both succeed, the upsert or the
\* delete raises, or create_payload_index raises after the upsert
SyncOutcomes == {"ok", "refused", "index_failed"}

\* an upsert that stores the points next to the ones already there
sync_upsert_appended(bank, points) ==
    bank \cup {[points[i] EXCEPT !.vector = <<"again", @>>] :
                  i \in 1..Len(points)}
         \cup Range(points)

\* qdrant.upsert: each point replaces the point of its id
sync_upsert(bank, points) ==
    {p \in bank : \A q \in Range(points) : q.id # p.id} \cup Range(points)

\* qdrant.delete(points_selector=PointIdsList(points=[point_id]))
sync_delete(bank, pid) == {p \in bank : p.id # pid}

\* the collection after the handler served the request
sync_apply(bank, req, outcome) ==
    IF req.shape # "ok" \/ outcome = "refused" THEN bank
    ELSE IF req.action = "delete"
    THEN sync_delete(bank, str_id(req.content[1].rag_id))
    ELSE sync_upsert(bank,
                     [i \in 1..Len(req.content) |-> sync_point(req.content[i])])

\* the status and HTTP code the handler answers
sync_response(req, outcome) ==
    IF req.shape \in {"no_action", "unknown_action", "content_not_list"}
    THEN [NoResponse EXCEPT !.code = 400, !.status = "error"]
    ELSE IF \/ req.shape = "missing_key"
            \/ outcome = "refused"
            \/ (outcome = "index_failed" /\ req.action = "bulk_sync")
    THEN [NoResponse EXCEPT !.code = 500, !.status = "error"]
    ELSE [NoResponse EXCEPT !.code = 200, !.status = "success"]

\* the history after the request: what was last written under each id
written(history, bank_name, req, outcome) ==
    IF req.shape # "ok" \/ outcome = "refused" THEN history
    ELSE [k \in DOMAIN history |->
            IF k[1] = bank_name
               /\ \E i \in 1..Len(req.content) : req.content[i].rag_id = k[2]
            THEN IF req.action = "delete" THEN "deleted"
                 ELSE LET i == CHOOSE i \in 1..Len(req.content) :
                                   req.content[i].rag_id = k[2]
                      IN  req.content[i].rag_name
            ELSE history[k]]

InitSync ==
    /\ variant = "routes"
    /\ pc = "sync"
    /\ knowledge_bank = {}
    /\ usulan_bank = {}
    /\ last_write = [k \in {"knowledge_bank", "usulan_bank"} \X EntryIds |->
                        "never"]
    /\ pages = <<>>
    /\ embed_failures = {}
    /\ merged = [called |-> FALSE, raised |-> FALSE, chunks |-> <<>>,
                 items |-> <<>>, compared |-> <<>>]
    /\ runs = <<>>
    /\ document_bank = [exists |-> FALSE, points |-> {}]
    /\ files_on_disk = {}
    /\ OcrIdle
    /\ judge_reply = NoReply
    /\ pre_reply = NoReply
    /\ user_question = <<>>
    /\ normalized_question = <<>>
    /\ qdrant_results = <<>>
    /\ relevance_result = EmptyDict
    /\ accepted_results = <<>>
    /\ rejected_results = <<>>
    /\ response_payload = NoResponse
    /\ doc_response = NoDocResponse
    /\ doc_relevance_result = EmptyDict
    /\ log = <<>>

not_sync_vars ==
    <<variant, pc, user_question, normalized_question, qdrant_results,
      relevance_result, accepted_results, rejected_results, doc_response,
      doc_relevance_result, log, judge_reply, pages, embed_failures, merged,
      runs, document_bank, files_on_disk, ocr_vars, pre_reply>>

\* one request to /api/sync
SyncData ==
    /\ pc = "sync"
    /\ \E req \in SyncRequests, outcome \in SyncOutcomes :
       /\ knowledge_bank' = sync_apply(knowledge_bank, req, outcome)
       /\ last_write' = written(last_write, "knowledge_bank", req, outcome)
       /\ response_payload' = sync_response(req, outcome)
    /\ UNCHANGED <<not_sync_vars, usulan_bank>>

\* one request to /api/sync-usulan
SyncUsulan ==
    /\ pc = "sync"
    /\ \E req \in SyncRequests, outcome \in SyncOutcomes :
       /\ usulan_bank' = sync_apply(usulan_bank, req, outcome)
       /\ last_write' = written(last_write, "usulan_bank", req, outcome)
       /\ response_payload' = sync_response(req, outcome)
    /\ UNCHANGED <<not_sync_vars, knowledge_bank>>

NextSync == SyncData \/ SyncUsulan

SpecSync == InitSync /\ [][NextSync]_vars

---------------------------------------------------------------------------
\* routes/usulan_routes.py: /api/search-usulan, the search of the proposal
\* bank.  A hit carries its dense score only; its overlap field stays 0, as
\* the handler computes no overlap.

\* limit of the usulan_bank query
UsulanLimit == 5

UsulanHitLists ==
    {h \in HitLists(UsulanLimit) : \A i \in 1..Len(h) : h[i].overlap = 0}

\* what ai_pre_filter_usulan hands back as clean_request: the request
\* itself (also on every failure) or a reformulation
CleanRequests(user_request) == {user_request, <<"ktp">>}

\* ai_relevance_usulan(user_input, top_result): the parsed object, or
\* relevant = True when the LLM gives no text, no object or an empty one
ai_relevance_usulan(reply) ==
    LET llm_content == call_gemini_llm(reply)
        parsed == extract_json(llm_content)
    IN  IF Falsy(llm_content)
        THEN [relevant |-> "True", reason |-> "LLM error, skip relevance check"]
        ELSE IF ~parsed.ok \/ parsed.obj = EmptyDict
        THEN [relevant |-> "True", reason |-> "Fallback: invalid JSON"]
        ELSE [relevant |-> parsed.obj.relevant, reason |-> parsed.obj.reason]

\* the note of a hit the scoring loop accepts
UsulanAcceptedNote == "Data yang Relevan Ditemukan"

\* the result_item of hit number rank: final_score = round(dense_score, 3)
usulan_item(rank, hit) ==
    [rank |-> rank,
     dense_score |-> hit.dense,
     final_score |-> hit.dense,
     note |-> IF hit.dense >= 850 THEN UsulanAcceptedNote ELSE "-"]

\* the items of the hits, in hit order, that the loop accepted (or rejected)
usulan_scored(hits, accepted) ==
    LET F[i \in 0..Len(hits)] ==
            IF i = 0 THEN <<>>
            ELSE IF (hits[i].dense >= 850) = accepted
                 THEN Append(F[i - 1], usulan_item(i, hits[i]))
                 ELSE F[i - 1]
    IN  F[Len(hits)]

\* the body returned when the topic check says not relevant
usulan_irrelevant_response ==
    [NoResponse EXCEPT !.code = 200, !.status = "low_confidence"]

\* the response_payload of /api/search-usulan
usulan_payload(accepted, rejected) ==
    [NoResponse EXCEPT
        !.code = 200,
        !.status = IF accepted # <<>> THEN "success" ELSE "low_confidence",
        !.similar_questions = IF accepted # <<>> THEN accepted ELSE rejected,
        !.final_score_top =
            IF accepted # <<>> THEN <<accepted[1].final_score>> ELSE <<>>]

InitUsulan ==
    /\ PipelineIdle
    /\ variant = "routes"
    /\ pc = "usulan_received"
    /\ user_question \in Questions
    /\ pre_reply = NoReply
    /\ judge_reply = NoReply
    /\ normalized_question = <<>>
    /\ qdrant_results = <<>>
    /\ relevance_result = EmptyDict
    /\ accepted_results = <<>>
    /\ rejected_results = <<>>
    /\ response_payload = NoResponse
    /\ doc_response = NoDocResponse
    /\ doc_relevance_result = EmptyDict
    /\ log = <<>>

\* the empty-question check, ai_pre_filter_usulan, the embedding and the
\* usulan_bank query; an exception of the last two answers 500
UsulanSearch ==
    /\ UNCHANGED pipeline_vars
    /\ pc = "usulan_received"
    /\ IF user_question = <<>>
       THEN /\ response_payload' = missing_question_response
            /\ pc' = "usulan_done"
            /\ UNCHANGED <<normalized_question, qdrant_results, log>>
       ELSE \E clean \in CleanRequests(user_question),
               outcome \in {"ok", "embed_failed", "index_failed"} :
            /\ normalized_question' = clean
            /\ log' = Tag("pre_filter", <<"db", "llm">>)
                         \o Tag("search", IF outcome = "embed_failed"
                                          THEN <<"embed">>
                                          ELSE <<"embed", "index">>)
            /\ IF outcome = "ok"
               THEN /\ \E h \in UsulanHitLists : qdrant_results' = h
                    /\ pc' = "usulan_searched"
                    /\ UNCHANGED response_payload
               ELSE /\ response_payload' = error_response
                    /\ pc' = "usulan_done"
                    /\ UNCHANGED qdrant_results
    /\ UNCHANGED <<variant, user_question, relevance_result, accepted_results,
                   rejected_results, doc_response, doc_relevance_result,
                   judge_reply>>

\* the scoring loop, the sorts, the topic check on the top hit and the
\* response
UsulanRespond ==
    /\ UNCHANGED pipeline_vars
    /\ pc = "usulan_searched"
    /\ \E reply \in SearchJudgeReplies :
       LET topic_check_result ==
               IF qdrant_results # <<>> THEN ai_relevance_usulan(reply)
               ELSE [relevant |-> "True", reason |-> "Tidak ada hasil RAG"]
           accepted == sorted_desc(usulan_scored(qdrant_results, TRUE))
           rejected == sorted_desc(usulan_scored(qdrant_results, FALSE))
       IN  /\ relevance_result' =
                 [relevant |-> topic_check_result.relevant,
                  reason |-> topic_check_result.reason,
                  reformulated_question |-> "absent"]
           /\ accepted_results' = accepted
           /\ rejected_results' = rejected
           /\ log' = log \o (IF qdrant_results # <<>>
                             THEN Tag("judge", <<"db", "llm">>) ELSE <<>>)
           /\ response_payload' =
                 IF ~Truthy(Get(topic_check_result, "relevant", "True"))
                 THEN usulan_irrelevant_response
                 ELSE usulan_payload(accepted, rejected)
    /\ pc' = "usulan_done"
    /\ UNCHANGED <<variant, user_question, normalized_question, qdrant_results,
                   doc_response, doc_relevance_result, judge_reply>>

NextUsulan ==
    \/ UsulanSearch
    \/ UsulanRespond

SpecUsulan == InitUsulan /\ [][NextUsulan]_vars

---------------------------------------------------------------------------
\* core/ocr_utils.py: _extract_pdf_pages.  A page is named by what its
\* extraction meets; a text is <<>> when empty, <<"digits">> when it holds a
\* lone page number, else <<origin, page_number>>.

\* what a page of the PDF does: it cannot be loaded; it has native text; its
\* native text is a lone page number; get_text raises and OCR reads it; it
\* is a scan OCR reads; its rendering raises; OCR raises on it; OCR finds
\* nothing on it
PageKinds ==
    {"load_raises", "native_text", "native_digits", "get_text_raises",
     "scan_text", "render_raises", "ocr_raises", "ocr_empty"}

Pdfs == UNION {[1..n -> PageKinds] : n \in 1..MaxPages}

\* _clean_page_text: lone page numbers removed, blanks collapsed, stripped
clean_page_text(raw_text) ==
    IF raw_text = <<"digits">> THEN <<>> ELSE raw_text

\* current_page.get_text("text") or "", stripped; "" when it raises
get_text(kind, page_number) ==
    IF kind = "native_text" THEN <<"native", page_number>>
    ELSE IF kind = "native_digits" THEN <<"digits">>
    ELSE <<>>

\* _ocr_image_bytes: the lines OCR read, "" when it finds nothing or raises
ocr_image_bytes(kind, page_number) ==
    IF kind \in {"scan_text", "get_text_raises"}
    THEN <<"ocr", page_number>>
    ELSE <<>>

\* the text one round of the loop stores for page_number
page_entry(kind, page_number) ==
    LET extracted_text == get_text(kind, page_number)
    IN  IF extracted_text # <<>> THEN clean_page_text(extracted_text)
        ELSE IF kind = "render_raises" THEN <<>>
        ELSE clean_page_text(ocr_image_bytes(kind, page_number))

\* an assignment that leaves out a page without text
store_page_with_text(page_map, page_number, cleaned_text) ==
    IF cleaned_text = <<>> THEN page_map
    ELSE [p \in DOMAIN page_map \cup {page_number} |->
             IF p = page_number THEN cleaned_text ELSE page_map[p]]

\* extracted_pages[page_number] = the cleaned text of the page
store_page(page_map, page_number, cleaned_text) ==
    [p \in DOMAIN page_map \cup {page_number} |->
        IF p = page_number THEN cleaned_text ELSE page_map[p]]

\* fitz.open(pdf_path) has returned and the loop is about to start
InitOcr ==
    /\ variant = "routes"
    /\ pc = "ocr_loop"
    /\ \E doc \in Pdfs : pdf = [pages |-> doc, page_number |-> 1]
    /\ extracted_pages = <<>>
    /\ pages = <<>>
    /\ embed_failures = {}
    /\ merged = [called |-> FALSE, raised |-> FALSE, chunks |-> <<>>,
                 items |-> <<>>, compared |-> <<>>]
    /\ runs = <<>>
    /\ document_bank = [exists |-> FALSE, points |-> {}]
    /\ files_on_disk = {}
    /\ SyncIdle
    /\ judge_reply = NoReply
    /\ pre_reply = NoReply
    /\ user_question = <<>>
    /\ normalized_question = <<>>
    /\ qdrant_results = <<>>
    /\ relevance_result = EmptyDict
    /\ accepted_results = <<>>
    /\ rejected_results = <<>>
    /\ response_payload = NoResponse
    /\ doc_response = NoDocResponse
    /\ doc_relevance_result = EmptyDict
    /\ log = <<>>

not_ocr_vars ==
    <<variant, user_question, normalized_question, qdrant_results,
      relevance_result, accepted_results, rejected_results, response_payload,
      doc_response, doc_relevance_result, log, judge_reply, pre_reply, pages,
      embed_failures, merged, runs, document_bank, files_on_disk, sync_vars>>

\* one round of the loop over the pages; loading the page is outside the try
\* blocks, so its exception ends the function
ExtractPage ==
    /\ pc = "ocr_loop"
    /\ pdf.page_number <= Len(pdf.pages)
    /\ LET kind == pdf.pages[pdf.page_number]
       IN  IF kind = "load_raises"
           THEN /\ pc' = "ocr_raised"
                /\ UNCHANGED <<pdf, extracted_pages>>
           ELSE /\ extracted_pages' =
                      store_page(extracted_pages, pdf.page_number,
                                 page_entry(kind, pdf.page_number))
                /\ pdf' = [pdf EXCEPT !.page_number = @ + 1]
                /\ UNCHANGED pc
    /\ UNCHANGED not_ocr_vars

\* return dict(sorted(extracted_pages.items()))
ReturnPages ==
    /\ pc = "ocr_loop"
    /\ pdf.page_number > Len(pdf.pages)
    /\ pc' = "ocr_returned"
    /\ UNCHANGED <<pdf, extracted_pages, not_ocr_vars>>

NextOcr ==
    \/ ExtractPage
    \/ ReturnPages

SpecOcr == InitOcr /\ [][NextOcr]_vars

---------------------------------------------------------------------------
\* Vocabulary of the properties.

Called(c) == \E i \in 1..Len(log) : log[i].call = c

CountCalls(c) == Cardinality({i \in 1..Len(log) : log[i].call = c})

\* the request got through pre-filter, embedding and index query, and has
\* been answered
Answered == pc = "done" /\ response_payload.code = 200 /\ Called("index")

\* item of hit number i with the note n is in the list
Listed(items, i, n) ==
    \E j \in 1..Len(items) : items[j].rank = i /\ items[j].note = n

InList(items, i) == \E j \in 1..Len(items) : items[j].rank = i

\* the verdict has a relevant field and it is falsy
SaysNotRelevant(verdict) == verdict.relevant \in {"False", "None", "zero"}

\* the verdict has a relevant field and it is truthy
SaysRelevant(verdict) == verdict.relevant \in {"True", "nonempty_str"}

Tier1(h) == h.dense >= 900

Tier2(h) == 860 <= h.dense /\ h.dense <= 890 /\ h.overlap >= 250

NonIncreasing(items) ==
    \A j \in 1..(Len(items) - 1) :
        items[j].final_score >= items[j + 1].final_score

---------------------------------------------------------------------------
\* C1 as stated: in routes/search_routes.search every candidate with dense
\* >= 0.90 is among the accepted candidates the response returns, with note
\* "auto_accepted_by_dense", whatever the judge's verdict.
C1_Original ==
    (Answered /\ variant = "routes") =>
        \A i \in 1..Len(qdrant_results) :
            Tier1(qdrant_results[i]) =>
                /\ response_payload.status = "success"
                /\ Listed(response_payload.similar_questions, i,
                          "auto_accepted_by_dense")

\* C1 amended: the scorer accepts every candidate with dense >= 0.90 with note
\* "auto_accepted_by_dense" whatever its overlap and the verdict; the response
\* of routes/search_routes.search returns it among the accepted candidates
\* when the verdict's relevant field is absent or truthy, and returns no
\* accepted candidate at all when the verdict says not relevant.
C1_Amended ==
    /\ pc = "scored" =>
          \A i \in 1..Len(qdrant_results) :
              Tier1(qdrant_results[i]) =>
                  Listed(accepted_results, i, "auto_accepted_by_dense")
    /\ (Answered /\ variant = "routes") =>
          \A i \in 1..Len(qdrant_results) :
              Tier1(qdrant_results[i]) =>
                  IF SaysNotRelevant(relevance_result)
                  THEN /\ ~InList(response_payload.similar_questions, i)
                       /\ Called("doc")
                  ELSE /\ response_payload.status = "success"
                       /\ Listed(response_payload.similar_questions, i,
                                 "auto_accepted_by_dense")

\* a candidate with dense 0.90 and overlap 0.0 is returned as accepted after
\* the judge call failed
C1_Witness ==
    /\ Answered
    /\ variant = "routes"
    /\ relevance_result.reason = "LLM error"
    /\ \E i \in 1..Len(qdrant_results) :
          /\ qdrant_results[i].dense = 900
          /\ qdrant_results[i].overlap = 0
          /\ Listed(response_payload.similar_questions, i,
                    "auto_accepted_by_dense")

\* C2: in routes/search_routes.search a request that passed the pre-filter
\* issues the document-index query if and only if the text index returned
\* zero candidates or the judge's verdict on the top hit is not relevant.
C2_FallbackIff ==
    (pc = "done" /\ variant = "routes" /\ Called("embed")) =>
        (CountCalls("doc") = 1 <=>
            /\ response_payload.code = 200
            /\ \/ Len(qdrant_results) = 0
               \/ SaysNotRelevant(relevance_result))

\* the query is issued although the index returned hits: the judge said no
C2_Witness ==
    /\ pc = "done"
    /\ variant = "routes"
    /\ Called("doc")
    /\ qdrant_results # <<>>
    /\ relevance_result.relevant = "False"

---------------------------------------------------------------------------
\* the judge call failed: no text came back
JudgeCallFailed(reply) ==
    reply.transport \in FailedTransports \/ reply.shape = "empty"

\* a text came back that is no well-formed verdict: no JSON object, an empty
\* object, relevant missing or no boolean, reformulated_question no string
JudgeReplyMalformed(reply) ==
    /\ reply.transport = "ok"
    /\ \/ reply.shape \in {"no_json", "bad_json"}
       \/ /\ reply.shape = "object"
          /\ \/ reply.obj = EmptyDict
             \/ reply.obj.relevant \notin {"True", "False"}
             \/ reply.obj.reformulated_question = "nonstring"

\* C3 as stated: ai_check_relevance returns a verdict with relevant = true
\* whenever the judge call fails or its reply is malformed, and a verdict
\* with relevant = false only when a well-formed reply says so.
C3_SafeDefault ==
    pc = "judge_returned" =>
        /\ (JudgeCallFailed(judge_reply) \/ JudgeReplyMalformed(judge_reply))
              => relevance_result.relevant = "True"
        /\ relevance_result.relevant = "False" =>
              /\ ~JudgeCallFailed(judge_reply)
              /\ ~JudgeReplyMalformed(judge_reply)
              /\ judge_reply.obj.relevant = "False"

\* the hard filter rejects the question of the request
HardFiltered ==
    /\ pc \notin {"idle"}
    /\ user_question # <<>>
    /\ hard_filter_local(user_question).valid = "False"

\* C4: when hard_filter_local rejects a query, /api/search ends with status
\* "low_confidence" and an empty candidate list, and no external call is made
\* in the request: no prompt lookup, no LLM call, no embedding, no index
\* query, no judge call, no document-service call.
C4_NoExternalCall ==
    HardFiltered =>
        /\ log = <<>>
        /\ pc \in {"received", "done"}
        /\ pc = "done" =>
              /\ response_payload.code = 200
              /\ response_payload.status = "low_confidence"
              /\ response_payload.similar_questions = <<>>

\* a question naming a place outside the service area has been answered
C4_Witness ==
    /\ pc = "done"
    /\ user_question = <<"ktp", "Jakarta">>
    /\ hard_filter_local(user_question).reason = "location"
    /\ response_payload.status = "low_confidence"
    /\ log = <<>>

\* no candidate passed a tier
NoneAccepted == scored(qdrant_results, relevance_result, TRUE) = <<>>

\* C5 as stated: a request that passed the pre-filters ends with status
\* "success" and provenance "text" only if a text candidate is accepted, and
\* in every other case the document-index query is issued.
C5_Original ==
    Answered =>
        /\ (response_payload.status = "success"
            /\ response_payload.source \in {"text", "absent"})
              => ~NoneAccepted
        /\ ~(response_payload.status = "success"
             /\ response_payload.source \in {"text", "absent"})
              => Called("doc")

\* C5 amended: a response with status "success" and source "text" lists the
\* accepted candidates, of which there is at least one; app.search issues the
\* document-index query whenever no candidate is accepted;
\* routes/search_routes.search, when the index returned hits, the verdict is
\* not "not relevant" and the tiers rejected every hit, issues no
\* document-index query and answers status "low_confidence", source "text",
\* with the rejected candidates.
C5_Amended ==
    Answered =>
        /\ (response_payload.status = "success"
            /\ response_payload.source = "text")
              => /\ ~NoneAccepted
                 /\ accepted_results # <<>>
                 /\ response_payload.similar_questions = accepted_results
        /\ (variant = "app" /\ NoneAccepted) => Called("doc")
        /\ (/\ variant = "routes"
            /\ NoneAccepted
            /\ qdrant_results # <<>>
            /\ ~SaysNotRelevant(relevance_result))
              => /\ ~Called("doc")
                 /\ response_payload.status = "low_confidence"
                 /\ response_payload.source = "text"
                 /\ response_payload.similar_questions = rejected_results
                 /\ Len(rejected_results) = Len(qdrant_results)

\* hits, a verdict of relevant, every hit rejected: no fallback in routes
C5_Witness ==
    /\ Answered
    /\ variant = "routes"
    /\ qdrant_results # <<>>
    /\ relevance_result.relevant = "True"
    /\ NoneAccepted
    /\ ~Called("doc")
    /\ response_payload.status = "low_confidence"

\* the document service gave no usable top document, or the judge did not
\* find the excerpt relevant
FallbackFailed ==
    \/ doc_response.outcome \in DocFailures
    \/ /\ doc_response.outcome = "hit"
       /\ ~SaysRelevant(doc_relevance_result)

\* C6: in routes/search_routes.search, once fallback is triggered, a failure
\* of the fallback layer (service unreachable, timeout, non-200, status other
\* than "success", no results, unparsable body, excerpt judged not relevant)
\* ends in HTTP 200, status "low_confidence", source "none", and
\* similar_questions equal to the rejected text-bank candidates sorted by
\* final_score descending.
C6_FallbackDegrades ==
    (pc = "done" /\ variant = "routes" /\ Called("doc") /\ FallbackFailed) =>
        /\ response_payload.code = 200
        /\ response_payload.status = "low_confidence"
        /\ response_payload.source = "none"
        /\ NonIncreasing(response_payload.similar_questions)
        /\ \A i \in 1..Len(qdrant_results) :
              InList(response_payload.similar_questions, i) <=>
                  ~classify(qdrant_results[i].dense, qdrant_results[i].overlap,
                            relevance_result).is_accepted
        /\ \A j \in 1..Len(response_payload.similar_questions) :
              /\ response_payload.similar_questions[j].rank
                    \in 1..Len(qdrant_results)
              /\ \A k \in 1..Len(response_payload.similar_questions) :
                    response_payload.similar_questions[j].rank =
                       response_payload.similar_questions[k].rank => j = k

\* the document service timed out and the two rejected candidates come back
\* with the second hit first, its final_score being the higher
C6_Witness ==
    /\ pc = "done"
    /\ variant = "routes"
    /\ doc_response.outcome = "timeout"
    /\ Len(response_payload.similar_questions) = 2
    /\ response_payload.similar_questions[1].rank = 2
    /\ response_payload.similar_questions[1].final_score >
          response_payload.similar_questions[2].final_score
    /\ response_payload.source = "none"

\* the log has a document-service call followed by the LLM call of the judge
\* on the excerpt
JudgedAfterDocQuery ==
    \E i, j \in 1..Len(log) :
        /\ i < j
        /\ log[i] = [by |-> "fallback", call |-> "doc"]
        /\ log[j] = [by |-> "judge_doc", call |-> "llm"]

\* C7: routes/search_routes.search returns a document answer (status
\* "success", source "document") only after the judge has been run on the top
\* document hit's excerpt and reported it relevant, and the response carries
\* the excerpt with the hit's filename, page number and organization tag.
C7_DocumentAnswer ==
    (/\ pc = "done"
     /\ variant = "routes"
     /\ response_payload.status = "success"
     /\ response_payload.source = "document") =>
        /\ doc_response.outcome = "hit"
        /\ JudgedAfterDocQuery
        /\ SaysRelevant(doc_relevance_result)
        /\ Len(response_payload.similar_questions) = 1
        /\ response_payload.similar_questions[1].answer_doc =
              doc_response.top.text
        /\ response_payload.document_info =
              [filename |-> doc_response.top.filename,
               page_number |-> doc_response.top.page_number,
               opd |-> doc_response.top.opd]

\* a document answer has been returned
C7_Witness ==
    /\ pc = "done"
    /\ variant = "routes"
    /\ response_payload.status = "success"
    /\ response_payload.source = "document"
    /\ response_payload.document_info.filename = "perda.pdf"
    /\ response_payload.document_info.opd = "dukcapil"

---------------------------------------------------------------------------
\* the request passed the pre-filters, its top hit has dense >= 0.90 and the
\* judge found it relevant
TopDenseAndRelevant ==
    /\ Answered
    /\ qdrant_results # <<>>
    /\ Tier1(qdrant_results[1])
    /\ relevance_result.relevant = "True"

\* the answer comes from the text bank: source "text", or, in app.search,
\* whose text answers carry no source field, no source at all
TextProvenance ==
    \/ response_payload.source = "text"
    \/ variant = "app" /\ response_payload.source = "absent"

\* C8 as stated: for such a request the response has status "success",
\* source "text" and a primary answer with note "auto_accepted_by_dense", in
\* routes/search_routes.search and in app.search, for every overlap score of
\* the top hit.
C8_Original ==
    TopDenseAndRelevant =>
        /\ response_payload.status = "success"
        /\ TextProvenance
        /\ response_payload.similar_questions # <<>>
        /\ response_payload.similar_questions[1].note = "auto_accepted_by_dense"

\* C8 amended: for such a request routes/search_routes.search answers status
\* "success", source "text", and the top hit is among similar_questions with
\* note "auto_accepted_by_dense"; the primary answer is the accepted candidate
\* of highest final_score, which may be another hit.  app.search answers the
\* same without a source field when the best accepted final_score is at least
\* 0.85; below that it queries the document service, and unless that returns
\* a top document the answer keeps status "success" and the accepted list,
\* with source "none".
C8_Amended ==
    TopDenseAndRelevant =>
        /\ variant = "routes" =>
              /\ response_payload.status = "success"
              /\ response_payload.source = "text"
              /\ ~Called("doc")
              /\ Listed(response_payload.similar_questions, 1,
                        "auto_accepted_by_dense")
              /\ \A j \in 1..Len(response_payload.similar_questions) :
                    response_payload.similar_questions[1].final_score >=
                       response_payload.similar_questions[j].final_score
        /\ variant = "app" =>
              /\ response_payload.status = "success"
              /\ accepted_results # <<>>
              /\ IF \A j \in 1..Len(accepted_results) :
                       accepted_results[j].final_score < 850
                 THEN /\ Called("doc")
                      /\ IF doc_response.outcome = "hit"
                         THEN /\ response_payload.similar_questions = <<>>
                              /\ response_payload.answer_text =
                                    doc_response.top.text
                              /\ response_payload.source =
                                    IF doc_response.top.has_score
                                    THEN "document" ELSE "none"
                         ELSE /\ response_payload.source = "none"
                              /\ Listed(response_payload.similar_questions, 1,
                                        "auto_accepted_by_dense")
                 ELSE /\ ~Called("doc")
                      /\ response_payload.source = "absent"
                      /\ Listed(response_payload.similar_questions, 1,
                                "auto_accepted_by_dense")
                      /\ \A j \in 1..Len(response_payload.similar_questions) :
                            response_payload.similar_questions[1].final_score >=
                               response_payload.similar_questions[j].final_score

\* the top hit is accepted by its dense score and the primary answer is the
\* second hit, accepted by overlap with the higher final_score
C8_Witness ==
    /\ TopDenseAndRelevant
    /\ variant = "routes"
    /\ Len(response_payload.similar_questions) = 2
    /\ response_payload.similar_questions[1].rank = 2
    /\ response_payload.similar_questions[1].note = "accepted_by_overlap"
    /\ response_payload.similar_questions[2].note = "auto_accepted_by_dense"

\* C9: the scorer classifies a candidate with 0.86 <= dense <= 0.89 and
\* overlap >= 0.25 as accepted with note "accepted_by_overlap" whatever the
\* judge's verdict, and rejects a candidate with such a dense score, overlap
\* 0.10 and a verdict of relevant = false.
C9_OverlapTier ==
    pc = "scored" =>
        \A i \in 1..Len(qdrant_results) :
            LET h == qdrant_results[i] IN
            /\ (860 <= h.dense /\ h.dense <= 890 /\ h.overlap >= 250) =>
                  /\ Listed(accepted_results, i, "accepted_by_overlap")
                  /\ ~InList(rejected_results, i)
            /\ (/\ 860 <= h.dense /\ h.dense <= 890 /\ h.overlap = 100
                /\ relevance_result.relevant = "False") =>
                  /\ Listed(rejected_results, i, "-")
                  /\ ~InList(accepted_results, i)

\* one request with a verdict of not relevant in which a candidate of dense
\* 0.885 and overlap 0.25 is accepted by overlap and one of dense 0.86 and
\* overlap 0.10 is rejected
C9_Witness ==
    /\ pc = "scored"
    /\ relevance_result.relevant = "False"
    /\ qdrant_results = <<[dense |-> 885, overlap |-> 250],
                          [dense |-> 860, overlap |-> 100]>>
    /\ Listed(accepted_results, 1, "accepted_by_overlap")
    /\ Listed(rejected_results, 2, "-")

\* C10: the tiers are tried in order and the first match wins: a candidate
\* that neither tier 1 nor tier 2 matches is accepted with note
\* "accepted_by_ai_relevance" if and only if dense >= 0.83, overlap >= 0.15
\* and the verdict obtained for the top hit is relevant; every remaining
\* candidate is rejected with note "-"; a candidate an earlier tier matches
\* never carries a later tier's note.
C10_TierPrecedence ==
    pc = "scored" =>
        /\ Len(accepted_results) + Len(rejected_results) = Len(qdrant_results)
        /\ \A i \in 1..Len(qdrant_results) :
              LET h == qdrant_results[i]
                  tier3 == /\ h.dense >= 830
                           /\ h.overlap >= 150
                           /\ SaysRelevant(relevance_result)
              IN  /\ Tier1(h) =>
                        Listed(accepted_results, i, "auto_accepted_by_dense")
                  /\ (~Tier1(h) /\ Tier2(h)) =>
                        Listed(accepted_results, i, "accepted_by_overlap")
                  /\ (~Tier1(h) /\ ~Tier2(h)) =>
                        /\ tier3 <=> Listed(accepted_results, i,
                                            "accepted_by_ai_relevance")
                        /\ ~tier3 <=> Listed(rejected_results, i, "-")
                  /\ InList(accepted_results, i) # InList(rejected_results, i)

\* a candidate in the gap between tier 1 and tier 2 (dense 0.895, overlap
\* 0.25) is accepted by the judge's verdict, next to one tier 2 accepts
\* although tier 3 matches it too
C10_Witness ==
    /\ pc = "scored"
    /\ relevance_result.relevant = "True"
    /\ qdrant_results = <<[dense |-> 895, overlap |-> 250],
                          [dense |-> 885, overlap |-> 250]>>
    /\ Listed(accepted_results, 1, "accepted_by_ai_relevance")
    /\ Listed(accepted_results, 2, "accepted_by_overlap")

---------------------------------------------------------------------------
\* C11: in routes/search_routes.search a request issues at most one
\* document-index query, and exactly one when the text index returned zero
\* hits; the query is sent only after text-bank scoring is complete (the
\* step that sends it starts from the built payload and leaves the scored
\* lists alone) and is never sent again, whatever the first one returned.
C11_OneDocQuery ==
    /\ [](variant = "routes" =>
            /\ CountCalls("doc") <= 1
            /\ Called("doc") => pc = "done"
            /\ (Answered /\ qdrant_results = <<>>) => CountCalls("doc") = 1)
    /\ [][(variant = "routes" /\ CountCalls("doc")' # CountCalls("doc")) =>
            /\ pc = "payload"
            /\ CountCalls("doc")' = CountCalls("doc") + 1
            /\ accepted_results = <<>>
            /\ rejected_results =
                  sorted_desc(scored(qdrant_results, relevance_result, FALSE))
            /\ UNCHANGED <<accepted_results, rejected_results>>]_vars

\* zero hits, the document service timed out, and one query was sent
C11_Witness ==
    /\ Answered
    /\ variant = "routes"
    /\ qdrant_results = <<>>
    /\ doc_response.outcome = "timeout"
    /\ CountCalls("doc") = 1

---------------------------------------------------------------------------
\* number of parts in the first c chunks
RECURSIVE PartsUpTo(_, _)
PartsUpTo(chunks, c) ==
    IF c = 0 THEN 0 ELSE PartsUpTo(chunks, c - 1) + Len(chunks[c].text)

\* the chunk part number i of the items went into
ChunkOf(chunks, i) ==
    CHOOSE c \in 1..Len(chunks) :
        PartsUpTo(chunks, c - 1) < i /\ i <= PartsUpTo(chunks, c)

\* the merge returned its chunks
MergeReturned == pc = "merge_returned" /\ merged.called /\ ~merged.raised

\* C14: the merge threshold is inclusive.  A part whose similarity to the
\* embedding it was compared with is exactly 0.80 (or more) went into the
\* chunk of the part before it, whose page_end reaches its page; a part with
\* a similarity below 0.80 (0.7999) closed that chunk and starts the next
\* one.
C14_InclusiveThreshold ==
    MergeReturned =>
        \A k \in 1..Len(merged.compared) :
            LET j == merged.compared[k][1]
                i == merged.compared[k][2]
                sim == cos_sim(merged.items[j].part, merged.items[i].part)
                cj == ChunkOf(merged.chunks, j)
                ci == ChunkOf(merged.chunks, i)
            IN  /\ sim >= 8000 =>
                      /\ ci = cj
                      /\ merged.chunks[ci].page_end >= merged.items[i].pnum
                      /\ merged.chunks[ci].page_start <= merged.items[j].pnum
                /\ sim < 8000 =>
                      /\ ci = cj + 1
                      /\ PartsUpTo(merged.chunks, cj) = j
                      /\ merged.chunks[ci].page_start = merged.items[i].pnum
                      /\ merged.chunks[cj].page_end = merged.items[j].pnum

\* s1 and s2, at 0.80 exactly, form one chunk over pages 1 to 2, and s3, at
\* 0.7999 from s2, starts the next one
C14_Witness ==
    /\ MergeReturned
    /\ embed_failures = {}
    /\ [i \in 1..Len(merged.items) |-> merged.items[i].part]
          = <<"s1", "s2", "s3">>
    /\ [i \in 1..Len(merged.items) |-> merged.items[i].pnum] = <<1, 2, 3>>
    /\ merged.compared = <<<<1, 2>>, <<2, 3>>>>
    /\ Len(merged.chunks) = 2
    /\ merged.chunks[1].text = <<"s1", "s2">>
    /\ merged.chunks[1].page_start = 1
    /\ merged.chunks[1].page_end = 2
    /\ merged.chunks[2].text = <<"s3">>
    /\ merged.chunks[2].page_start = 3

---------------------------------------------------------------------------
\* C15: every merge decision for part i compares its embedding with the
\* embedding of part i-1 alone, whatever the buffer has accumulated; when no
\* embedding call fails every part after the first is compared, and two
\* neighbouring parts share a chunk exactly when their own similarity
\* reaches the threshold.
C15_ComparesWithPrevious ==
    (pc = "merge_returned" /\ merged.called) =>
        /\ \A k \in 1..Len(merged.compared) :
              merged.compared[k][1] = merged.compared[k][2] - 1
        /\ (embed_failures = {} /\ ~merged.raised) =>
              /\ merged.compared =
                    [k \in 1..(Len(merged.items) - 1) |-> <<k, k + 1>>]
              /\ \A i \in 2..Len(merged.items) :
                    (ChunkOf(merged.chunks, i) = ChunkOf(merged.chunks, i - 1))
                       <=> cos_sim(merged.items[i - 1].part,
                                   merged.items[i].part) >= sim_threshold

\* s4 joins the buffer that s1 started: it is close to s2, the part before
\* it, and far from s1
C15_Witness ==
    /\ MergeReturned
    /\ embed_failures = {}
    /\ [i \in 1..Len(merged.items) |-> merged.items[i].part]
          = <<"s1", "s2", "s4">>
    /\ Len(merged.chunks) = 1
    /\ merged.chunks[1].text = <<"s1", "s2", "s4">>

---------------------------------------------------------------------------
\* page numbers and texts of a three-page document
PagesInOrder ==
    <<[pnum |-> 1, text |-> <<"s2">>], [pnum |-> 2, text |-> <<"s1">>],
      [pnum |-> 3, text |-> <<"s3">>]>>

\* the same three texts given to the page numbers in another order
PagesReordered ==
    <<[pnum |-> 1, text |-> <<"s1">>], [pnum |-> 2, text |-> <<"s3">>],
      [pnum |-> 3, text |-> <<"s2">>]>>

\* the page ranges of the chunks
Boundaries(chunks) ==
    [c \in 1..Len(chunks) |-> <<chunks[c].page_start, chunks[c].page_end>>]

\* the parts of the items that come from page pnum, in item order
RECURSIVE PartsOfPage(_, _)
PartsOfPage(items, pnum) ==
    IF items = <<>> THEN <<>>
    ELSE IF Head(items).pnum = pnum
         THEN <<Head(items).part>> \o PartsOfPage(Tail(items), pnum)
         ELSE PartsOfPage(Tail(items), pnum)

\* C16: the merger consumes the parts in ascending page-number order, and
\* in split order within a page, whatever the order in which the page map
\* holds its keys; and its output depends on that order: the three texts of
\* PagesInOrder, given to the page numbers as in PagesReordered, come out
\* with other chunk boundaries.
C16_PageOrder ==
    (pc = "merge_returned" /\ merged.called) =>
        /\ \A a, b \in 1..Len(merged.items) :
              a < b => merged.items[a].pnum <= merged.items[b].pnum
        /\ \A k \in 1..Len(pages) :
              PartsOfPage(merged.items, pages[k].pnum) = pages[k].text
        /\ \A a \in 1..Len(merged.items) :
              \E k \in 1..Len(pages) : pages[k].pnum = merged.items[a].pnum
        /\ (pages = PagesInOrder /\ embed_failures = {}) =>
              Boundaries(merged.chunks) #
                 Boundaries(semantic_merge_pages(PagesReordered, {}).chunks)

\* the page map holds page 3 before page 1 and the merger still starts
\* with page 1: s2 and s1 merge over pages 1 to 2, s3 stays alone
C16_Witness ==
    /\ MergeReturned
    /\ embed_failures = {}
    /\ pages = <<[pnum |-> 3, text |-> <<"s3">>],
                 [pnum |-> 1, text |-> <<"s2">>],
                 [pnum |-> 2, text |-> <<"s1">>]>>
    /\ Boundaries(merged.chunks) = <<<<1, 2>>, <<3, 3>>>>
    /\ Boundaries(semantic_merge_pages(PagesReordered, {}).chunks)
          = <<<<1, 1>>, <<2, 2>>, <<3, 3>>>>

---------------------------------------------------------------------------
\* the points of run r that the collection holds
StoredOf(r) == {p \in document_bank.points : p.id[2] = r}

\* the run has left the try block
Ended(r) == runs[r].pc \in {"finally", "returned"}

\* C12: process_document never partially indexes.  The collection never
\* holds a strict non-empty subset of a run's points; a run that ends has
\* status "ok", with every one of its points upserted, or status "error"
\* with the causing message; a run that failed in any stage before the
\* upsert (resolve, OCR, merge, embed, collection check) has stored nothing;
\* and the upsert stores all points of the run at once.
C12_NoPartialIndex ==
    /\ [](pc = "ingest" =>
          \A r \in RunIds :
             /\ StoredOf(r) \in {{}, Range(runs[r].points)}
             /\ ~runs[r].upserted => StoredOf(r) = {}
             /\ Ended(r) =>
                   \/ /\ runs[r].result.status = "ok"
                      /\ runs[r].upserted
                      /\ runs[r].points # <<>>
                      /\ runs[r].result.total_chunks = Len(runs[r].points)
                   \/ /\ runs[r].result.status = "error"
                      /\ runs[r].result.message # ""
             /\ ~Ended(r) => runs[r].result = NoResult)
    /\ [][pc = "ingest" =>
          \A r \in RunIds :
             (runs'[r].upserted /\ ~runs[r].upserted) =>
                Range(runs[r].points) \subseteq document_bank'.points]_vars

\* one run returned status "ok" with its two chunks stored, the other
\* failed at the batch embedding and stored nothing
C12_Witness ==
    /\ pc = "ingest"
    /\ \E a, b \in RunIds :
          /\ runs[a].pc = "returned"
          /\ runs[a].result.status = "ok"
          /\ runs[a].result.total_chunks = 2
          /\ StoredOf(a) = Range(runs[a].points)
          /\ runs[b].pc = "returned"
          /\ runs[b].result = error_result("model.encode raised")
          /\ StoredOf(b) = {}

---------------------------------------------------------------------------
---------------------------------------------------------------------------
\* C17 as stated: every temporary file that ingestion creates for a remote
\* download is removed on every exit path of process_document: once a run
\* has returned, the file mkstemp made for it is gone, also when the
\* download step itself failed after the file was made.
C17_TempFilesRemoved ==
    pc = "ingest" =>
        \A r \in RunIds :
            runs[r].pc = "returned" => TempFile(r) \notin files_on_disk

---------------------------------------------------------------------------
\* the points a collection holds under the id of entry n
PointsOf(bank, n) == {p \in bank : p.id = str_id(n)}

\* the collection holds what was last written under each entry id
MirrorsLastWrite(bank, bank_name) ==
    \A n \in EntryIds :
        LET w == last_write[<<bank_name, n>>]
        IN  IF w \in EntryNames
            THEN PointsOf(bank, n) =
                    {sync_point([rag_id |-> n, rag_name |-> w])}
            ELSE PointsOf(bank, n) = {}

\* serving the request a second time changes nothing
AppliedTwiceIsOnce(bank) ==
    \A req \in SyncRequests :
        sync_apply(sync_apply(bank, req, "ok"), req, "ok")
           = sync_apply(bank, req, "ok")

\* C18: sync is idempotent on the entry id.  After any sequence of
\* bulk_sync, add, update and delete requests each collection holds at most
\* one point per entry id; that point is the last write for the id, and
\* none remains after a delete; and applying any request a second time
\* leaves the collection as the first application left it.
C18_SyncIdempotent ==
    pc = "sync" =>
        /\ \A n \in EntryIds :
              /\ Cardinality(PointsOf(knowledge_bank, n)) <= 1
              /\ Cardinality(PointsOf(usulan_bank, n)) <= 1
        /\ \A p \in knowledge_bank \cup usulan_bank :
              \E n \in EntryIds : p.id = str_id(n)
        /\ MirrorsLastWrite(knowledge_bank, "knowledge_bank")
        /\ MirrorsLastWrite(usulan_bank, "usulan_bank")
        /\ AppliedTwiceIsOnce(knowledge_bank)
        /\ AppliedTwiceIsOnce(usulan_bank)

\* entry 1 of the knowledge bank was rewritten as q2, its entry 2 deleted,
\* and the proposal bank holds both entries
C18_Witness ==
    /\ pc = "sync"
    /\ last_write[<<"knowledge_bank", 1>>] = "q2"
    /\ last_write[<<"knowledge_bank", 2>>] = "deleted"
    /\ knowledge_bank = {sync_point([rag_id |-> 1, rag_name |-> "q2"])}
    /\ Cardinality(usulan_bank) = 2

---------------------------------------------------------------------------
\* C19 as stated: every scored candidate /api/search returns, the item
\* built from a document-fallback hit included, has final_score =
\* round(0.65 * dense_score + 0.35 * overlap_score, 3), and the lists are
\* ranked by that final_score.
C19_FinalScoreFormula ==
    (pc = "done" /\ response_payload.code = 200) =>
        /\ \A j \in 1..Len(response_payload.similar_questions) :
              LET item == response_payload.similar_questions[j]
              IN  item.final_score =
                     final_score(item.dense_score, item.overlap_score)
        /\ NonIncreasing(response_payload.similar_questions)

---------------------------------------------------------------------------
\* hit number i is one the tiers accept
AcceptedHit(i) ==
    classify(qdrant_results[i].dense, qdrant_results[i].overlap,
             relevance_result).is_accepted

\* C20: in every text-provenance response, similar_questions is ordered by
\* final_score non-increasing; when a candidate is accepted the list holds
\* the accepted candidates only, its first element has the highest
\* final_score of the accepted ones and final_score_top is that score; when
\* none is accepted the list holds the rejected candidates only.
C20_TextListOrder ==
    (Answered /\ TextProvenance) =>
        LET list == response_payload.similar_questions
            hits == 1..Len(qdrant_results)
        IN  /\ NonIncreasing(list)
            /\ \A j \in 1..Len(list) :
                  /\ list[j].rank \in hits
                  /\ list[j] = result_item(list[j].rank,
                                           qdrant_results[list[j].rank],
                                           relevance_result)
            /\ IF \E i \in hits : AcceptedHit(i)
               THEN /\ \A i \in hits : InList(list, i) <=> AcceptedHit(i)
                    /\ \A i \in hits :
                          AcceptedHit(i) =>
                             list[1].final_score >=
                                final_score(qdrant_results[i].dense,
                                            qdrant_results[i].overlap)
                    /\ response_payload.final_score_top =
                          <<list[1].final_score>>
                    /\ response_payload.status = "success"
               ELSE /\ \A i \in hits : InList(list, i)
                    /\ response_payload.final_score_top = <<>>
                    /\ response_payload.status = "low_confidence"

\* two accepted hits come back with the second hit first: accepted by
\* overlap, its final_score is the higher one
C20_Witness ==
    /\ Answered
    /\ variant = "routes"
    /\ response_payload.source = "text"
    /\ Len(response_payload.similar_questions) = 2
    /\ response_payload.similar_questions[1].rank = 2
    /\ response_payload.similar_questions[1].note = "accepted_by_overlap"
    /\ response_payload.similar_questions[2].note = "auto_accepted_by_dense"
    /\ response_payload.final_score_top
          = <<response_payload.similar_questions[1].final_score>>

---------------------------------------------------------------------------
\* the messages of a run that ended because a collaborator failed: the
\* source did not resolve, the file vanished, or the extraction raised
CollaboratorFailures ==
    {"Local file not found", "RequestException", "OSError",
     "FileNotFoundError", "extract_text_from_file raised"}

\* C25 as stated: when every collaborator succeeds, process_document
\* returns status "ok" for a document of any page count; so a run started
\* at the entry that returned status "error" has a collaborator's failure
\* as its message.
C25_OkWhenAllSucceed ==
    pc = "ingest" =>
        \A r \in RunIds :
            (/\ runs[r].entry = "resolve"
             /\ runs[r].pc = "returned"
             /\ runs[r].result.status = "error")
                => runs[r].result.message \in CollaboratorFailures

---------------------------------------------------------------------------
---------------------------------------------------------------------------
\* C30 as stated: process_document deletes only files it downloaded; the
\* local files of the callers, under /tmp or elsewhere, exist after every
\* run, whatever its status.
C30_LocalFilesKept ==
    (pc = "ingest" /\ \A r \in RunIds : runs[r].entry = "resolve") =>
        {LocalData, LocalTmp} \subseteq files_on_disk

---------------------------------------------------------------------------
\* the neighbouring parts of the items whose similarity is below the
\* threshold
LowPairs(items) ==
    {i \in 2..Len(items) :
        cos_sim(items[i - 1].part, items[i].part) < sim_threshold}

\* the chunks are the items cut into contiguous runs, in order, each chunk
\* spanning the pages of its first and last part
PartitionsItems(chunks, items) ==
    /\ PartsUpTo(chunks, Len(chunks)) = Len(items)
    /\ \A c \in 1..Len(chunks) :
          LET first == PartsUpTo(chunks, c - 1) + 1
              last == PartsUpTo(chunks, c)
          IN  /\ chunks[c].text # <<>>
              /\ \A k \in 1..Len(chunks[c].text) :
                    chunks[c].text[k] = items[first + k - 1].part
              /\ chunks[c].page_start = items[first].pnum
              /\ chunks[c].page_end = items[last].pnum
              /\ chunks[c].page_start <= chunks[c].page_end
    /\ \A c \in 1..(Len(chunks) - 1) :
          chunks[c].page_end <= chunks[c + 1].page_start

\* C29 as stated: the chunks returned partition the parts into contiguous
\* runs in input order, with the pages of their first and last part, and
\* their number, when there is a part at all, is 1 plus the number of
\* neighbouring parts with similarity below 0.80.
C29_Original ==
    (MergeReturned /\ merged.items # <<>>) =>
        /\ PartitionsItems(merged.chunks, merged.items)
        /\ Len(merged.chunks) = 1 + Cardinality(LowPairs(merged.items))

\* C29 amended: the chunks returned partition the parts into contiguous runs
\* in input order, with the pages of their first and last part and the last
\* buffer flushed; with no part there is no chunk; with at least one part
\* their number is 1 plus the number of neighbouring parts with similarity
\* below 0.80 when no embedding call failed, and at least that when one did.
C29_Amended ==
    MergeReturned =>
        /\ PartitionsItems(merged.chunks, merged.items)
        /\ merged.items = <<>> => merged.chunks = <<>>
        /\ merged.items # <<>> =>
              /\ Len(merged.chunks) >= 1 + Cardinality(LowPairs(merged.items))
              /\ embed_failures = {} =>
                    Len(merged.chunks) =
                       1 + Cardinality(LowPairs(merged.items))

\* three parts on three pages, the first two alike: two chunks, the second
\* one the flushed last buffer
C29_Witness ==
    /\ MergeReturned
    /\ embed_failures = {}
    /\ Len(merged.items) = 3
    /\ LowPairs(merged.items) = {3}
    /\ Len(merged.chunks) = 2
    /\ merged.chunks[2].text = <<merged.items[3].part>>
    /\ merged.chunks[1].page_start < merged.chunks[1].page_end

---------------------------------------------------------------------------
\* the call of the pre-filter LLM failed: no text came back, or a text
\* without a JSON object
PreFilterCallFailed ==
    \/ pre_reply.transport \in FailedTransports
    \/ pre_reply.transport = "ok" /\ pre_reply.shape \in NonObjectShapes

\* C22: a failure of the external pre-filter never rejects the query.  For a
\* question the local hard filter lets through, ai_pre_filter then returns
\* valid = true with the question itself as clean_question, the handler does
\* not answer "filtered out", the question it embeds is the user's question
\* normalised, and the request ends before the index query is answered only
\* when the embedding or the index itself fails.
C22_PreFilterFailurePasses ==
    (/\ pc \in {"prefiltered", "searched", "done"}
     /\ PreFilterCallFailed
     /\ user_question # <<>>
     /\ hard_filter_local(user_question).valid = "True")
    => /\ ai_pre_filter(user_question, pre_reply).result.valid = "True"
       /\ ai_pre_filter(user_question, pre_reply).result.clean_question
             = [kind |-> "str", text |-> user_question]
       /\ Called("llm")
       /\ response_payload # filtered_out_response
       /\ normalized_question =
             normalize_text(clean_location_terms(user_question))
       /\ pc = "done" =>
             /\ Called("embed")
             /\ response_payload = error_response

\* the LLM timed out and the index was queried for the question as asked
C22_Witness ==
    /\ pc = "searched"
    /\ variant = "routes"
    /\ pre_reply.transport = "timeout"
    /\ user_question = <<"ktp", "ktp">>
    /\ normalized_question = <<"ktp", "ktp">>
    /\ Called("index")
    /\ qdrant_results # <<>>

---------------------------------------------------------------------------
\* C23 as stated: when a category is detected and the category-filtered
\* index query returns fewer hits than the minimum candidate count, zero
\* hits in particular, routes/search_routes.search has queried the index a
\* second time, without the filter, before it judges and scores.
C23_WidenedQuery ==
    (/\ variant = "routes"
     /\ pc = "searched"
     /\ detect_category(normalized_question) # "None"
     /\ Len(qdrant_results) < AppMinCandidates)
    => CountCalls("index") = 2

---------------------------------------------------------------------------
\* the items of the list are candidates the tiers accepted
AllAccepted(list) ==
    \A j \in 1..Len(list) : list[j].rank \in 1..Len(qdrant_results)
                            /\ AcceptedHit(list[j].rank)

\* C27 as stated: in every HTTP 200 response of /api/search, source "none"
\* goes with status "low_confidence" only, and a response with status
\* "success" has text provenance with at least one accepted candidate or
\* source "document" with the excerpt.
C27_StatusMatchesSource ==
    (pc = "done" /\ response_payload.code = 200) =>
        /\ response_payload.source = "none" =>
              response_payload.status = "low_confidence"
        /\ response_payload.status = "success" =>
              \/ /\ TextProvenance
                 /\ response_payload.similar_questions # <<>>
                 /\ AllAccepted(response_payload.similar_questions)
              \/ /\ response_payload.source = "document"
                 /\ \/ response_payload.answer_text # "absent"
                    \/ /\ Len(response_payload.similar_questions) = 1
                       /\ response_payload.similar_questions[1].note
                             = "from_document_rag"

---------------------------------------------------------------------------
\* C28 as stated: in routes/search_routes.search a response with status
\* "success" and source "text" has as its primary answer, the first element
\* of similar_questions, the candidate the judge evaluated: the top hit of
\* the index query.
C28_PrimaryIsJudgedHit ==
    (/\ Answered
     /\ variant = "routes"
     /\ response_payload.status = "success"
     /\ response_payload.source = "text")
    => response_payload.similar_questions[1].rank = 1

---------------------------------------------------------------------------
\* C21 as stated: in /api/search-usulan a hit is returned as accepted if and
\* only if its dense score is at least 0.85, whatever any judge says; so a
\* request whose best hit has dense >= 0.85 ends with status "success".
C21_DenseOnlyAcceptance ==
    (pc = "usulan_done" /\ response_payload.code = 200) =>
        /\ \A i \in 1..Len(qdrant_results) :
              Listed(response_payload.similar_questions, i, UsulanAcceptedNote)
                 <=> qdrant_results[i].dense >= 850
        /\ (qdrant_results # <<>> /\ qdrant_results[1].dense >= 850) =>
              response_payload.status = "success"

---------------------------------------------------------------------------
\* the pages on which no text is obtained: the rendering or the OCR fails,
\* or OCR finds nothing
TextlessKinds == {"render_raises", "ocr_raises", "ocr_empty"}

\* C24: for a PDF of N pages the page map _extract_pdf_pages returns has
\* exactly the keys 1..N.  A page whose rendering or OCR fails or yields
\* nothing is present with the empty string, never missing; the other pages
\* hold their own text whatever happened on that page; while the loop runs
\* the map holds the pages before the current one, and an entry once
\* written is not removed or altered.
C24_PageMapComplete ==
    /\ [](pc = "ocr_returned" =>
            /\ DOMAIN extracted_pages = 1..Len(pdf.pages)
            /\ \A p \in 1..Len(pdf.pages) :
                  /\ pdf.pages[p] \in TextlessKinds =>
                        extracted_pages[p] = <<>>
                  /\ pdf.pages[p] = "native_text" =>
                        extracted_pages[p] = <<"native", p>>
                  /\ pdf.pages[p] \in {"scan_text", "get_text_raises"} =>
                        extracted_pages[p] = <<"ocr", p>>)
    /\ [](pc = "ocr_loop" =>
            DOMAIN extracted_pages = 1..(pdf.page_number - 1))
    /\ [][pc = "ocr_loop" =>
            \A p \in DOMAIN extracted_pages :
                /\ p \in DOMAIN extracted_pages'
                /\ extracted_pages'[p] = extracted_pages[p]]_vars

\* three pages, the OCR of the second finding nothing: three entries, the
\* second one the empty string
C24_Witness ==
    /\ pc = "ocr_returned"
    /\ pdf.pages = <<"native_text", "ocr_empty", "scan_text">>
    /\ DOMAIN extracted_pages = 1..3
    /\ extracted_pages[1] = <<"native", 1>>
    /\ extracted_pages[2] = <<>>
    /\ extracted_pages[3] = <<"ocr", 3>>

====
